---- MODULE Spec2Model ----
(***************************************************************************)
(* GridCols: a model of the headless grid engine.                          *)
(*                                                                         *)
(*   - the undo/redo history hook (hooks/useUndoRedoHistory.ts), a React   *)
(*     hook: its callbacks read the history and the cursor of the last     *)
(*     render, its state setters queue updates that the next render shows; *)
(*   - the grid reducer (useGridState): selection, edit session, edit      *)
(*     history.                                                            *)
(***************************************************************************)
EXTENDS Integers, Sequences, FiniteSets, TLC

VARIABLES
    \* ---- useUndoRedo (hooks/useUndoRedoHistory.ts) ----
    maxHistorySize,   \* the hook's option
    history,          \* useState: the value the next render will show
    historyIndex,     \* useState: the value the next render will show
    rHistory,         \* history as the last render (and every callback) sees it
    rHistoryIndex,    \* historyIndex as the last render sees it
    batchIdRef,       \* useRef: the open batch id, 0 for null
    batchCount,       \* batch ids handed out so far (ids are fresh)
    pushCount,        \* actions pushed so far (each action is distinct)
    lastOp,           \* the call made last
    lastReport,       \* entries passed to onUndo / onRedo by the last call
    lastStartBatch,   \* what the most recent startBatch returned, 0 if none
    batchOpen,        \* no endBatch since the most recent startBatch
    batchReplaced,    \* the most recent startBatch found a batch still open
    phase,            \* round trip driver: build, undoing, redoing, done
    snapHistory,      \* history when the round trip began
    snapIndex,        \* historyIndex when the round trip began
    \* ---- useGridState ----
    state,            \* useReducer: the GridState
    lastType,         \* the type of the action dispatched last
    rState,           \* state as the last render (and every callback) sees it
    hookOp,           \* the callback of useGridState called last
    lastCalls,        \* the onCellChange invocations that call made, in order
    awaiting,         \* the commitEdit call suspended at its await, if any
    \* ---- rows, comparators, useMultiSort ----
    data,             \* the caller's rows, in input order
    colType,          \* the data type declared for column c1
    maxSorts,         \* useMultiSort's option
    sorts,            \* useMultiSort's useState: the sort items
    sortOp,           \* the callback of useMultiSort called last
    evicted,          \* the column that call pushed out of the list, if any
    sorted,           \* what the last sortData call returned
    \* ---- useVirtualizer ----
    vProps,           \* the hook's options at the last render
    mounted,          \* the component is mounted
    scrollTop,        \* useState: the value the next render will show
    isScrolling,      \* useState: the value the next render will show
    rVirt,            \* what the last render returned (and onScroll closes over)
    lastScrollTopRef, \* useRef: the offset of the scroll event accepted last
    rafIdRef,         \* useRef: the id of the requested animation frame, 0 for null
    frames,           \* the animation-frame callbacks requested and not yet run
    scrollTimeoutRef, \* useRef: the id of the timer set last, 0 for null
    timers,           \* the ids of the timers set and not yet expired
    scrollCount,      \* scroll events accepted so far (frame and timer ids are fresh)
    virtOp,           \* the step of useVirtualizer taken last
    \* ---- useColumnVirtualizer ----
    cvProps,          \* the hook's options at the last render
    scrollLeft,       \* useState: the value the next render will show
    rCols,            \* what the last render computed and returned
    \* ---- useColumnManager ----
    columnStates,     \* useState: the ColumnStates, in the Map's insertion order
    draggingColumnId, \* useState: the drag source, 0 for null
    dragOverColumnId, \* useState: the drag target, 0 for null
    rMgr,             \* the three as the last render (and onDragEnd) sees them
    \* ---- useKeyboardNav ----
    kProps,           \* the hook's options at the last render
    keyEvent,         \* the keydown event handed to onKeyDown last
    keyCalls,         \* what that onKeyDown call invoked, in order
    \* ---- DataGrid component ----
    dataGrid,         \* useState: columns, resizingColumn, dragStartX, history,
                      \* historyIndex, editingCell as the next render will show
    rDataGrid,        \* the same as the last render saw them: what the handlers
                      \* and the resize effect's listeners close over
    dataGridOp,       \* the handler of DataGrid that ran last
    resizeDrag        \* the resize drag under way or made last: the widths
                      \* before and after it, its mouse moves

historyVars == <<maxHistorySize, history, historyIndex, rHistory, rHistoryIndex,
                 batchIdRef, batchCount, pushCount, lastOp, lastReport,
                 lastStartBatch, batchOpen, batchReplaced>>
tripVars == <<phase, snapHistory, snapIndex>>

gridVars == <<state, lastType>>
hookVars == <<rState, hookOp, lastCalls, awaiting>>
sortVars == <<data, colType, maxSorts, sorts, sortOp, evicted, sorted>>

virtVars == <<vProps, mounted, scrollTop, isScrolling, rVirt, lastScrollTopRef,
              rafIdRef, frames, scrollTimeoutRef, timers, scrollCount, virtOp>>
colVirtVars == <<cvProps, scrollLeft, rCols>>
colMgrVars == <<columnStates, draggingColumnId, dragOverColumnId, rMgr>>
keyVars == <<kProps, keyEvent, keyCalls>>
dataGridVars == <<dataGrid, rDataGrid, dataGridOp, resizeDrag>>
viewVars == <<virtVars, colVirtVars, colMgrVars, keyVars, dataGridVars>>

vars == <<historyVars, tripVars, gridVars, hookVars, sortVars, viewVars>>

\* ------------------------------------------------------------------ bounds
MaxHistorySize == 4
MaxPushes == 4
MaxBatches == 2
MaxRows == 2
MaxEdits == 2
MaxData == 3
MaxSorts == 2
MaxCount == 4
MaxHeight == 2
MaxOverscan == 1
MaxOffset == 4
MaxScrolls == 3
MaxCols == 3
MaxWidth == 4
MaxResizes == 1
MaxMoves == 2
MaxStops == 1
MouseStep == 40

\* ----------------------------------------------------------------- helpers
Min(a, b) == IF a < b THEN a ELSE b
Max(a, b) == IF a > b THEN a ELSE b

\* Array.prototype.slice(start, end): negative arguments count from the end.
Slice(s, start, end) ==
    LET n == Len(s)
        b == IF start < 0 THEN Max(n + start, 0) ELSE Min(start, n)
        e == IF end < 0 THEN Max(n + end, 0) ELSE Min(end, n)
    IN  IF b >= e THEN <<>> ELSE SubSeq(s, b + 1, e)

SliceFrom(s, start) == Slice(s, start, Len(s))

\* An entry of the history; id 0 stands for undefined, batchId 0 for no batch.
NoEntry == [id |-> 0, batchId |-> 0]

\* history[i] with a 0-based index: undefined outside the array.
At(s, i) == IF i >= 0 /\ i < Len(s) THEN s[i + 1] ELSE NoEntry

Reverse(s) == [i \in 1..Len(s) |-> s[Len(s) + 1 - i]]

\* ===================================================== utils/comparators.ts
\* ------------------------------------------------------------- cell values
\* A CellValue: string | number | boolean | null | undefined, tagged with its
\* JavaScript type; n holds a number (or 1 / 0 for true / false), s a string.
JsNull == [t |-> "null", n |-> 0, s |-> ""]
JsUndefined == [t |-> "undefined", n |-> 0, s |-> ""]
Num(n) == [t |-> "number", n |-> n, s |-> ""]
Str(s) == [t |-> "string", n |-> 0, s |-> s]
Bool(b) == [t |-> "boolean", n |-> IF b THEN 1 ELSE 0, s |-> ""]

DataTypes == {"string", "number", "boolean", "date"}
Directions == {"asc", "desc"}

\* A number that may be NaN.
NaN == [nan |-> TRUE, n |-> 0]
Finite(n) == [nan |-> FALSE, n |-> n]

\* a == null
IsNullish(v) == v.t \in {"null", "undefined"}

\* String(v), for the values of the model.
JsString(v) ==
    CASE v.t = "string" -> v.s
      [] v.t = "number" ->
            (CASE v.n = 1 -> "1" [] v.n = 2 -> "2" [] v.n = 3 -> "3"
               [] OTHER -> "0")
      [] v.t = "boolean" -> (IF v.n = 1 THEN "true" ELSE "false")
      [] v.t = "null" -> "null"
      [] OTHER -> "undefined"

\* String.prototype.toLowerCase, for the strings of the model.
ToLowerCase(str) ==
    CASE str = "A" -> "a"
      [] str = "B" -> "b"
      [] str = "Ann" -> "ann"
      [] str = "Bob" -> "bob"
      [] str = "Cid" -> "cid"
      [] OTHER -> str

\* The place of a lower-case string in locale order: digits before letters,
\* a shorter string before the strings it is a prefix of.
LocaleOrder ==
    <<"0", "1", "2", "2020", "3", "a", "ann", "b", "bob", "cid", "false",
      "null", "true", "undefined">>

LocaleRank(str) == CHOOSE i \in 1..Len(LocaleOrder) : LocaleOrder[i] = str

\* a.localeCompare(b)
LocaleCompare(a, b) ==
    IF LocaleRank(a) < LocaleRank(b) THEN -1
    ELSE IF LocaleRank(a) > LocaleRank(b) THEN 1 ELSE 0

\* parseFloat(str): the number a string starts with, NaN if it starts with none.
ParseFloat(str) ==
    CASE str = "0" -> Finite(0)
      [] str = "1" -> Finite(1)
      [] str = "2" -> Finite(2)
      [] str = "3" -> Finite(3)
      [] str = "2020" -> Finite(2020)
      [] OTHER -> NaN

\* Boolean(v): 0, the empty string and false are falsy.
ToBoolean(v) ==
    CASE v.t = "number" -> v.n # 0
      [] v.t = "string" -> v.s # ""
      [] v.t = "boolean" -> v.n = 1
      [] OTHER -> FALSE

\* new Date(String(v)).getTime(): the year-only ISO form "2020" is midnight of
\* 1 January 2020 UTC, 1577836800000 ms, counted here in thousands of seconds
\* (every number of the model stays below it); the other strings of the model
\* are no date.
DateParse(str) == IF str = "2020" THEN Finite(1577836) ELSE NaN

\* compareStrings: case-insensitive, by locale order.
compareStrings(a, b) ==
    LocaleCompare(ToLowerCase(JsString(a)), ToLowerCase(JsString(b)))

CompareNaNLast(numA, numB) ==
    IF numA.nan /\ numB.nan THEN 0
    ELSE IF numA.nan THEN 1
    ELSE IF numB.nan THEN -1
    ELSE numA.n - numB.n

\* compareNumbers
compareNumbers(a, b) ==
    LET numA == IF a.t = "number" THEN Finite(a.n) ELSE ParseFloat(JsString(a))
        numB == IF b.t = "number" THEN Finite(b.n) ELSE ParseFloat(JsString(b))
    IN  CompareNaNLast(numA, numB)

\* compareBooleans: true before false.
compareBooleans(a, b) ==
    LET boolA == ToBoolean(a)
        boolB == ToBoolean(b)
    IN  IF boolA = boolB THEN 0 ELSE IF boolA THEN -1 ELSE 1

\* compareDates
compareDates(a, b) ==
    LET timeA == IF a.t = "number" THEN Finite(a.n) ELSE DateParse(JsString(a))
        timeB == IF b.t = "number" THEN Finite(b.n) ELSE DateParse(JsString(b))
    IN  CompareNaNLast(timeA, timeB)

\* The variant of createComparator that lets the direction flip the place of
\* null and undefined too.
createComparatorFlipsNull(dataType, direction, a, b) ==
    LET multiplier == IF direction = "desc" THEN -1 ELSE 1
        result ==
            IF IsNullish(a) /\ IsNullish(b) THEN 0
            ELSE IF IsNullish(a) THEN 1
            ELSE IF IsNullish(b) THEN -1
            ELSE CASE dataType = "number" -> compareNumbers(a, b)
                   [] dataType = "boolean" -> compareBooleans(a, b)
                   [] dataType = "date" -> compareDates(a, b)
                   [] OTHER -> compareStrings(a, b)
    IN  result * multiplier

\* createComparator(dataType, direction)(a, b)
createComparator(dataType, direction, a, b) ==
    LET multiplier == IF direction = "desc" THEN -1 ELSE 1
    IN  IF IsNullish(a) /\ IsNullish(b) THEN 0
        ELSE IF IsNullish(a) THEN 1
        ELSE IF IsNullish(b) THEN -1
        ELSE multiplier *
             (CASE dataType = "number" -> compareNumbers(a, b)
                [] dataType = "boolean" -> compareBooleans(a, b)
                [] dataType = "date" -> compareDates(a, b)
                [] OTHER -> compareStrings(a, b))

\* row[accessorKey]: undefined when the row has no such property.
Field(row, accessorKey) ==
    IF accessorKey \in DOMAIN row THEN row[accessorKey] ELSE JsUndefined

\* The variant that lets the first sort item alone decide.
CompareRowsFirstOnly(a, b, comparators) ==
    IF comparators = <<>> THEN 0
    ELSE LET c == Head(comparators)
         IN  createComparator(c.dataType, c.direction,
                              Field(a, c.accessorKey), Field(b, c.accessorKey))

\* The comparator multiSort hands to Array.prototype.sort: the first sort item
\* whose comparator gives a non-zero result decides.
RECURSIVE CompareRows(_, _, _)
CompareRows(a, b, comparators) ==
    IF comparators = <<>> THEN 0
    ELSE LET c == Head(comparators)
             result == createComparator(c.dataType, c.direction,
                                        Field(a, c.accessorKey),
                                        Field(b, c.accessorKey))
         IN  IF result # 0 THEN result ELSE CompareRows(a, b, Tail(comparators))

\* The variant of an unstable sort: an element goes in front of the elements
\* it compares equal to.
RECURSIVE InsertRowBeforeEqual(_, _, _)
InsertRowBeforeEqual(done, row, comparators) ==
    IF done = <<>> THEN <<row>>
    ELSE IF CompareRows(done[Len(done)], row, comparators) >= 0
    THEN Append(InsertRowBeforeEqual(SubSeq(done, 1, Len(done) - 1), row, comparators),
                done[Len(done)])
    ELSE Append(done, row)

\* Array.prototype.sort is stable: an element goes behind every element placed
\* before it that does not compare greater.
RECURSIVE InsertRow(_, _, _)
InsertRow(done, row, comparators) ==
    IF done = <<>> THEN <<row>>
    ELSE IF CompareRows(done[Len(done)], row, comparators) > 0
    THEN Append(InsertRow(SubSeq(done, 1, Len(done) - 1), row, comparators),
                done[Len(done)])
    ELSE Append(done, row)

RECURSIVE ArraySort(_, _)
ArraySort(rows, comparators) ==
    IF rows = <<>> THEN <<>>
    ELSE InsertRow(ArraySort(SubSeq(rows, 1, Len(rows) - 1), comparators),
                   rows[Len(rows)], comparators)

\* multiSort(data, sorts)
multiSort(rows, comparators) ==
    IF Len(comparators) = 0 THEN rows ELSE ArraySort(rows, comparators)

\* sortByAccessor(data, accessorKey, dataType, direction)
sortByAccessor(rows, accessorKey, dataType, direction) ==
    IF direction = "null" THEN rows
    ELSE ArraySort(rows, <<[accessorKey |-> accessorKey, dataType |-> dataType,
                            direction |-> direction]>>)

\* A row: its stable id and the values of its two columns.
Row(id, c1, c2) == [id |-> id, c1 |-> c1, c2 |-> c2]


\* ============================================================ useMultiSort
SortColumns == {"c1", "c2", "c3"}

SortItem(columnId, accessorKey, dataType, direction, priority) ==
    [columnId |-> columnId, accessorKey |-> accessorKey, dataType |-> dataType,
     direction |-> direction, priority |-> priority]

\* currentSorts.findIndex((s) => s.columnId === columnId)
FindIndex(currentSorts, columnId) ==
    LET hits == {i \in 1..Len(currentSorts) : currentSorts[i].columnId = columnId}
    IN  IF hits = {} THEN -1
        ELSE (CHOOSE i \in hits : \A j \in hits : i <= j) - 1

\* .filter((s) => s.columnId !== columnId)
RECURSIVE FilterOut(_, _)
FilterOut(list, columnId) ==
    IF list = <<>> THEN <<>>
    ELSE IF Head(list).columnId # columnId
    THEN <<Head(list)>> \o FilterOut(Tail(list), columnId)
    ELSE FilterOut(Tail(list), columnId)

\* .map((s, i) => ({ ...s, priority: i }))
Renumber(list) == [i \in 1..Len(list) |-> [list[i] EXCEPT !.priority = i - 1]]

\* Variants of the toggleSort updater: one that appends at the cap without
\* making room, one that turns a descending sort back to ascending.
ToggleSortNoEvict(currentSorts, columnId, accessorKey, dataType, additive, max) ==
    LET existingIndex == FindIndex(currentSorts, columnId)
    IN  IF existingIndex = -1
        THEN IF additive
             THEN Append(currentSorts, SortItem(columnId, accessorKey, dataType,
                                                "asc", Len(currentSorts)))
             ELSE <<SortItem(columnId, accessorKey, dataType, "asc", 0)>>
        ELSE IF currentSorts[existingIndex + 1].direction = "asc"
        THEN [i \in 1..Len(currentSorts) |->
                 IF currentSorts[i].columnId = columnId
                 THEN [currentSorts[i] EXCEPT !.direction = "desc"]
                 ELSE currentSorts[i]]
        ELSE Renumber(FilterOut(currentSorts, columnId))

ToggleSortNeverRemoves(currentSorts, columnId, accessorKey, dataType, additive, max) ==
    LET existingIndex == FindIndex(currentSorts, columnId)
    IN  IF existingIndex = -1
        THEN IF additive
             THEN IF Len(currentSorts) >= max
                  THEN Append(SliceFrom(currentSorts, 1),
                              SortItem(columnId, accessorKey, dataType, "asc",
                                       Len(currentSorts)))
                  ELSE Append(currentSorts,
                              SortItem(columnId, accessorKey, dataType, "asc",
                                       Len(currentSorts)))
             ELSE <<SortItem(columnId, accessorKey, dataType, "asc", 0)>>
        ELSE [i \in 1..Len(currentSorts) |->
                 IF currentSorts[i].columnId = columnId
                 THEN [currentSorts[i] EXCEPT
                          !.direction = IF @ = "asc" THEN "desc" ELSE "asc"]
                 ELSE currentSorts[i]]

\* The updater toggleSort hands to setSorts.
ToggleSortUpdater(currentSorts, columnId, accessorKey, dataType, additive, max) ==
    LET existingIndex == FindIndex(currentSorts, columnId)
    IN  IF existingIndex = -1
        THEN IF additive
             THEN IF Len(currentSorts) >= max
                  THEN Append(SliceFrom(currentSorts, 1),
                              SortItem(columnId, accessorKey, dataType, "asc",
                                       Len(currentSorts)))
                  ELSE Append(currentSorts,
                              SortItem(columnId, accessorKey, dataType, "asc",
                                       Len(currentSorts)))
             ELSE <<SortItem(columnId, accessorKey, dataType, "asc", 0)>>
        ELSE IF currentSorts[existingIndex + 1].direction = "asc"
        THEN [i \in 1..Len(currentSorts) |->
                 IF currentSorts[i].columnId = columnId
                 THEN [currentSorts[i] EXCEPT !.direction = "desc"]
                 ELSE currentSorts[i]]
        ELSE Renumber(FilterOut(currentSorts, columnId))

\* The updater addSort hands to setSorts.
AddSortUpdater(currentSorts, columnId, accessorKey, dataType, direction, max) ==
    IF FindIndex(currentSorts, columnId) # -1 THEN currentSorts
    ELSE IF Len(currentSorts) >= max THEN currentSorts
    ELSE Append(currentSorts,
                SortItem(columnId, accessorKey, dataType, direction, Len(currentSorts)))

\* The updater removeSort hands to setSorts.
RemoveSortUpdater(currentSorts, columnId) == Renumber(FilterOut(currentSorts, columnId))

\* list.splice(start, 0, item): a negative start counts from the end, a start
\* past the end appends.
SpliceIn(list, start, item) ==
    LET n == Len(list)
        at == IF start < 0 THEN Max(n + start, 0) ELSE Min(start, n)
    IN  SubSeq(list, 1, at) \o <<item>> \o SubSeq(list, at + 1, n)

\* The updater moveSortPriority hands to setSorts.
MoveSortPriorityUpdater(currentSorts, columnId, newPriority) ==
    LET index == FindIndex(currentSorts, columnId)
    IN  IF index = -1 THEN currentSorts
        ELSE LET item == currentSorts[index + 1]
                 without == SubSeq(currentSorts, 1, index) \o
                            SubSeq(currentSorts, index + 2, Len(currentSorts))
             IN  Renumber(SpliceIn(without, newPriority, item))

\* sortData(data), with the sort items of the render it belongs to.
SortData(rows, list) ==
    IF Len(list) = 0 THEN rows
    ELSE multiSort(rows, [i \in 1..Len(list) |->
                             [accessorKey |-> list[i].accessorKey,
                              dataType |-> list[i].dataType,
                              direction |-> list[i].direction]])

\* =========================================================== useGridState
\* ------------------------------------------------------------ value domains
RowIds == 1..MaxRows
RowIndexes == {0, 1}
Columns == {"c1", "c2"}
Values == {"v1", "v2"}
Modes == {"none", "single", "multiple", "range"}

\* null, for a CellValue, a CellCoordinate, a SelectionRange and a SortState.
Null == "null"
NoCell == [rowIndex |-> -1, columnId |-> "null"]
NoRange == [start |-> NoCell, end |-> NoCell]
NoSort == [columnId |-> "null", direction |-> "null"]

Cells == [rowIndex : RowIndexes, columnId : Columns]

\* The key of a cell in selectedCells, `${rowIndex}:${columnId}`.
CellKey(cell) == <<cell.rowIndex, cell.columnId>>

NotEditing ==
    [isEditing |-> FALSE, cell |-> NoCell, originalValue |-> Null,
     currentValue |-> Null, isDirty |-> FALSE]

createInitialGridState(initialSort, initialSelection, selectionMode) ==
    [sort |-> initialSort,
     filters |-> <<>>,
     selection |-> [mode |-> selectionMode,
                    selectedRowIds |-> initialSelection,
                    selectedCells |-> {},
                    activeCell |-> NoCell,
                    selectionRange |-> NoRange],
     edit |-> NotEditing,
     editHistory |-> <<>>,
     historyIndex |-> -1,
     focusedCell |-> NoCell,
     isScrolling |-> FALSE,
     columnWidths |-> <<>>]

\* PERFORMANCE.MAX_UNDO_HISTORY
MAX_UNDO_HISTORY == 50

\* ------------------------------------------------------ gridReducer: sort
\* case 'SORT_SET'
SortSet(s, sort) == [s EXCEPT !.sort = sort]

\* case 'SORT_TOGGLE'
SortToggle(s, columnId) ==
    LET currentSort == s.sort
        newDirection ==
            IF currentSort.columnId # columnId THEN "asc"
            ELSE IF currentSort.direction = "asc" THEN "desc"
            ELSE "null"
    IN  [s EXCEPT !.sort = IF newDirection # "null"
                           THEN [columnId |-> columnId, direction |-> newDirection]
                           ELSE NoSort]

\* case 'SORT_CLEAR'
SortClear(s) == [s EXCEPT !.sort = NoSort]

\* ------------------------------------------------- gridReducer: selection
SelectRowAlwaysToggles(s, rowId, multi) ==
    IF s.selection.mode = "none" THEN s
    ELSE LET ids == s.selection.selectedRowIds
         IN  [s EXCEPT !.selection.selectedRowIds =
                  IF s.selection.mode = "single" THEN {rowId}
                  ELSE IF rowId \in ids THEN ids \ {rowId} ELSE ids \cup {rowId}]

\* case 'SELECT_ROW'
SelectRow(s, rowId, multi) ==
    IF s.selection.mode = "none" THEN s
    ELSE LET ids == s.selection.selectedRowIds
         IN  [s EXCEPT !.selection.selectedRowIds =
                  IF s.selection.mode = "single" \/ ~multi THEN {rowId}
                  ELSE IF rowId \in ids THEN ids \ {rowId} ELSE ids \cup {rowId}]

\* case 'DESELECT_ROW'
DeselectRow(s, rowId) ==
    [s EXCEPT !.selection.selectedRowIds = @ \ {rowId}]

\* case 'SELECT_ALL'
SelectAll(s, rowIds) ==
    IF s.selection.mode # "multiple" THEN s
    ELSE [s EXCEPT !.selection.selectedRowIds = rowIds]

\* case 'DESELECT_ALL'
DeselectAll(s) ==
    [s EXCEPT !.selection.selectedRowIds = {},
              !.selection.selectedCells = {},
              !.selection.selectionRange = NoRange]

\* case 'SET_ACTIVE_CELL'
SetActiveCell(s, cell) == [s EXCEPT !.selection.activeCell = cell]

\* case 'SELECT_CELL'
SelectCell(s, cell) ==
    [s EXCEPT !.selection.selectedCells = {CellKey(cell)},
              !.selection.activeCell = cell]

\* case 'SELECT_CELL_RANGE'
SelectCellRange(s, start, end) ==
    LET minRow == Min(start.rowIndex, end.rowIndex)
        maxRow == Max(start.rowIndex, end.rowIndex)
    IN  [s EXCEPT !.selection.selectedCells =
                      {<<row, start.columnId>> : row \in minRow..maxRow},
                  !.selection.selectionRange = [start |-> start, end |-> end],
                  !.selection.activeCell = start]

\* ------------------------------------------------------ gridReducer: edit
\* case 'EDIT_START'
EditStart(s, cell, value) ==
    [s EXCEPT !.edit = [isEditing |-> TRUE, cell |-> cell, originalValue |-> value,
                        currentValue |-> value, isDirty |-> FALSE]]

\* case 'EDIT_CHANGE'
EditChange(s, value) ==
    [s EXCEPT !.edit.currentValue = value,
              !.edit.isDirty = (s.edit.originalValue # value)]

EditCommitNoTrim(s, rowId, columnId) ==
    IF ~s.edit.isEditing \/ s.edit.cell = NoCell THEN s
    ELSE LET newEdit == [rowId |-> rowId, columnId |-> columnId,
                         oldValue |-> s.edit.originalValue,
                         newValue |-> s.edit.currentValue]
             newHistory == Append(Slice(s.editHistory, 0, s.historyIndex + 1), newEdit)
         IN  [s EXCEPT !.edit = NotEditing,
                       !.editHistory = newHistory,
                       !.historyIndex = Len(newHistory) - 1]

\* case 'EDIT_COMMIT'; the entry's timestamp is left out.
EditCommit(s, rowId, columnId) ==
    IF ~s.edit.isEditing \/ s.edit.cell = NoCell THEN s
    ELSE LET newEdit == [rowId |-> rowId, columnId |-> columnId,
                         oldValue |-> s.edit.originalValue,
                         newValue |-> s.edit.currentValue]
             newHistory == SliceFrom(Append(Slice(s.editHistory, 0, s.historyIndex + 1),
                                            newEdit),
                                     -MAX_UNDO_HISTORY)
         IN  [s EXCEPT !.edit = NotEditing,
                       !.editHistory = newHistory,
                       !.historyIndex = Len(newHistory) - 1]

\* case 'EDIT_CANCEL'
EditCancel(s) == [s EXCEPT !.edit = NotEditing]

\* case 'EDIT_UNDO'
EditUndo(s) ==
    IF s.historyIndex < 0 THEN s ELSE [s EXCEPT !.historyIndex = @ - 1]

\* case 'EDIT_REDO'
EditRedo(s) ==
    IF s.historyIndex >= Len(s.editHistory) - 1 THEN s
    ELSE [s EXCEPT !.historyIndex = @ + 1]

\* ----------------------------------------------------------- gridReducer
\* An action is a record with its type and the fields of its payload.
gridReducer(s, action) ==
    CASE action.type = "SORT_SET" -> SortSet(s, action.sort)
      [] action.type = "SORT_TOGGLE" -> SortToggle(s, action.columnId)
      [] action.type = "SORT_CLEAR" -> SortClear(s)
      [] action.type = "SELECT_ROW" -> SelectRow(s, action.rowId, action.multi)
      [] action.type = "DESELECT_ROW" -> DeselectRow(s, action.rowId)
      [] action.type = "SELECT_ALL" -> SelectAll(s, action.rowIds)
      [] action.type = "DESELECT_ALL" -> DeselectAll(s)
      [] action.type = "SET_ACTIVE_CELL" -> SetActiveCell(s, action.cell)
      [] action.type = "SELECT_CELL" -> SelectCell(s, action.cell)
      [] action.type = "SELECT_CELL_RANGE" -> SelectCellRange(s, action.start, action.end)
      [] action.type = "EDIT_START" -> EditStart(s, action.cell, action.value)
      [] action.type = "EDIT_CHANGE" -> EditChange(s, action.value)
      [] action.type = "EDIT_COMMIT" -> EditCommit(s, action.rowId, action.columnId)
      [] action.type = "EDIT_CANCEL" -> EditCancel(s)
      [] action.type = "EDIT_UNDO" -> EditUndo(s)
      [] action.type = "EDIT_REDO" -> EditRedo(s)
      [] OTHER -> s

\* The actions, as gridActions builds them.
setSort(sort) == [type |-> "SORT_SET", sort |-> sort]
toggleSort(columnId) == [type |-> "SORT_TOGGLE", columnId |-> columnId]
clearSort == [type |-> "SORT_CLEAR"]
selectRow(rowId, multi) == [type |-> "SELECT_ROW", rowId |-> rowId, multi |-> multi]
deselectRow(rowId) == [type |-> "DESELECT_ROW", rowId |-> rowId]
selectAll(rowIds) == [type |-> "SELECT_ALL", rowIds |-> rowIds]
deselectAll == [type |-> "DESELECT_ALL"]
setActiveCell(cell) == [type |-> "SET_ACTIVE_CELL", cell |-> cell]
startEdit(cell, value) == [type |-> "EDIT_START", cell |-> cell, value |-> value]
changeEdit(value) == [type |-> "EDIT_CHANGE", value |-> value]
commitEdit(rowId, columnId) ==
    [type |-> "EDIT_COMMIT", rowId |-> rowId, columnId |-> columnId]
cancelEdit == [type |-> "EDIT_CANCEL"]

\* dispatch(action)
Dispatch(action) ==
    /\ state' = gridReducer(state, action)
    /\ lastType' = action.type

GridIdle ==
    /\ state = createInitialGridState(NoSort, {}, "multiple")
    /\ lastType = "none"

\* No commitEdit call is suspended.  A suspended call keeps its arguments, the
\* two values it handed to onCellChange, whether it was made on a render of the
\* current state, and whether the edit session it was made in has been
\* cancelled or replaced since.
NoCommit ==
    [active |-> FALSE, rowId |-> 0, columnId |-> "null", newValue |-> "null",
     oldValue |-> "null", fresh |-> FALSE, ended |-> FALSE]

\* No sortData call has been made.
NotSorted == [called |-> FALSE, rows |-> <<>>]

HookIdle ==
    /\ rState = createInitialGridState(NoSort, {}, "multiple")
    /\ hookOp = "none"
    /\ lastCalls = <<>>
    /\ awaiting = NoCommit

SortIdle ==
    /\ data = <<>>
    /\ colType = "string"
    /\ maxSorts = 1
    /\ sorts = <<>>
    /\ sortOp = "none"
    /\ evicted = "null"
    /\ sorted = NotSorted

\* ============================================================ useVirtualizer
\* Scroll offsets are counted in half pixels, so that two offsets can differ
\* by less than one pixel; heights are whole pixels.
Px == 2

Abs(x) == IF x < 0 THEN -x ELSE x

\* Math.ceil(a / b) for b > 0
CeilDiv(a, b) == (a + b - 1) \div b

\* The window of an invalid state: no items.
EmptyWindow ==
    [virtualItems |-> <<>>, startIndex |-> 0, endIndex |-> 0, visibleCount |-> 0]

\* The variant of the visible range that ends one row later.
VisibleRangeOneMore(count, itemHeight, containerHeight, top, overscan) ==
    IF containerHeight <= 0 \/ count = 0 \/ itemHeight <= 0 THEN EmptyWindow
    ELSE LET rawStartIndex == top \div (itemHeight * Px)
             rawVisibleCount == CeilDiv(containerHeight, itemHeight)
             start == Max(0, rawStartIndex - overscan)
             end == Min(count - 1, rawStartIndex + rawVisibleCount + overscan + 1)
         IN  [virtualItems |->
                  [k \in 1..(end - start + 1) |->
                      [index |-> start + k - 1,
                       offsetTop |-> (start + k - 1) * itemHeight,
                       size |-> itemHeight]],
              startIndex |-> start,
              endIndex |-> end,
              visibleCount |-> rawVisibleCount]

\* The variant of the visible range that rounds the first visible row up.
VisibleRangeRoundUp(count, itemHeight, containerHeight, top, overscan) ==
    IF containerHeight <= 0 \/ count = 0 \/ itemHeight <= 0 THEN EmptyWindow
    ELSE LET rawStartIndex == CeilDiv(top, itemHeight * Px)
             rawVisibleCount == CeilDiv(containerHeight, itemHeight)
             start == Max(0, rawStartIndex - overscan)
             end == Min(count - 1, rawStartIndex + rawVisibleCount + overscan)
         IN  [virtualItems |->
                  [k \in 1..(end - start + 1) |->
                      [index |-> start + k - 1,
                       offsetTop |-> (start + k - 1) * itemHeight,
                       size |-> itemHeight]],
              startIndex |-> start,
              endIndex |-> end,
              visibleCount |-> rawVisibleCount]

\* The useMemo of the visible range: the rows start..end, none if start > end.
VisibleRange(count, itemHeight, containerHeight, top, overscan) ==
    IF containerHeight <= 0 \/ count = 0 \/ itemHeight <= 0 THEN EmptyWindow
    ELSE LET rawStartIndex == top \div (itemHeight * Px)
             rawVisibleCount == CeilDiv(containerHeight, itemHeight)
             start == Max(0, rawStartIndex - overscan)
             end == Min(count - 1, rawStartIndex + rawVisibleCount + overscan)
         IN  [virtualItems |->
                  [k \in 1..(end - start + 1) |->
                      [index |-> start + k - 1,
                       offsetTop |-> (start + k - 1) * itemHeight,
                       size |-> itemHeight]],
              startIndex |-> start,
              endIndex |-> end,
              visibleCount |-> rawVisibleCount]

\* What a render of the hook returns.
RenderOf(props, top, scrolling) ==
    [window |-> VisibleRange(props.count, props.itemHeight, props.containerHeight,
                             top, props.overscan),
     totalHeight |-> props.count * props.itemHeight,
     scrollTop |-> top,
     isScrolling |-> scrolling]

VirtProps(count, itemHeight, containerHeight, overscan, enableSmoothScroll) ==
    [count |-> count, itemHeight |-> itemHeight, containerHeight |-> containerHeight,
     overscan |-> overscan, enableSmoothScroll |-> enableSmoothScroll]

\* The step taken last: its name and, for onScroll, the event's scrollTop.
VirtStep(op, offset) == [op |-> op, offset |-> offset]

\* A freshly mounted hook with the given options.
VirtMounted(props) ==
    /\ vProps = props
    /\ mounted = TRUE
    /\ scrollTop = 0
    /\ isScrolling = FALSE
    /\ rVirt = RenderOf(props, 0, FALSE)
    /\ lastScrollTopRef = 0
    /\ rafIdRef = 0
    /\ frames = {}
    /\ scrollTimeoutRef = 0
    /\ timers = {}
    /\ scrollCount = 0
    /\ virtOp = VirtStep("none", 0)

VirtIdle == VirtMounted(VirtProps(0, 1, 0, 0, TRUE))

\* ====================================================== useColumnVirtualizer
\* No number: a width or minWidth the column definition leaves out (or a
\* width given as a string).
NoWidth == -1

\* The widths of the model are small numbers; the default stands for 150.
DEFAULT_COLUMN_WIDTH == 2
COLUMN_OVERSCAN == 1

\* A ColumnDef: visible is "true", "false" or "undefined"; pinned is "left",
\* "right" or "false".
ColumnDef(id, visible, pinned, width, minWidth) ==
    [id |-> id, visible |-> visible, pinned |-> pinned, width |-> width,
     minWidth |-> minWidth]

\* The variant of getColumnWidth that prefers minWidth to the declared width.
getColumnWidthMinFirst(column, columnWidths, defaultColumnWidth) ==
    IF column.id \in DOMAIN columnWidths THEN columnWidths[column.id]
    ELSE IF column.minWidth # NoWidth THEN column.minWidth
    ELSE IF column.width # NoWidth THEN column.width
    ELSE defaultColumnWidth

\* getColumnWidth(column): override, numeric width, minWidth, default.
getColumnWidth(column, columnWidths, defaultColumnWidth) ==
    IF column.id \in DOMAIN columnWidths THEN columnWidths[column.id]
    ELSE IF column.width # NoWidth THEN column.width
    ELSE IF column.minWidth # NoWidth THEN column.minWidth
    ELSE defaultColumnWidth

RECURSIVE SumWidths(_)
SumWidths(items) ==
    IF items = <<>> THEN 0
    ELSE items[1].width + SumWidths(Tail(items))

\* The items of a band before 0-based index i.
Before(items, i) == SubSeq(items, 1, Min(i, Len(items)))

IsPinnedLeft(item) == item.column.pinned = "left"
IsPinnedRight(item) == item.column.pinned = "right"
IsCenter(item) == item.column.pinned \notin {"left", "right"}
IsVisible(column) == column.visible # "false"

\* The variant of the band partition that does not filter hidden columns.
BandsWithHidden(columns, columnWidths, defaultColumnWidth) ==
    LET items == [i \in 1..Len(columns) |->
                     [column |-> columns[i],
                      width |-> getColumnWidth(columns[i], columnWidths,
                                               defaultColumnWidth)]]
        left == SelectSeq(items, IsPinnedLeft)
        right == SelectSeq(items, IsPinnedRight)
        center == SelectSeq(items, IsCenter)
    IN  [pinnedLeft |-> left,
         pinnedRight |-> right,
         scrollable |-> center,
         totalWidth |-> SumWidths(left) + SumWidths(center) + SumWidths(right),
         pinnedLeftWidth |-> SumWidths(left),
         pinnedRightWidth |-> SumWidths(right)]

\* The useMemo that separates pinned and scrollable columns.
Bands(columns, columnWidths, defaultColumnWidth) ==
    LET visibleColumns == SelectSeq(columns, IsVisible)
        items == [i \in 1..Len(visibleColumns) |->
                     [column |-> visibleColumns[i],
                      width |-> getColumnWidth(visibleColumns[i], columnWidths,
                                               defaultColumnWidth)]]
        left == SelectSeq(items, IsPinnedLeft)
        right == SelectSeq(items, IsPinnedRight)
        center == SelectSeq(items, IsCenter)
    IN  [pinnedLeft |-> left,
         pinnedRight |-> right,
         scrollable |-> center,
         totalWidth |-> SumWidths(left) + SumWidths(center) + SumWidths(right),
         pinnedLeftWidth |-> SumWidths(left),
         pinnedRightWidth |-> SumWidths(right)]

\* A VirtualColumn
VirtualColumn(column, index, offsetLeft, width, isPinned) ==
    [column |-> column, index |-> index, offsetLeft |-> offsetLeft,
     width |-> width, isPinned |-> isPinned]

\* The scrollable columns with 0-based indices start..end, each at the offset
\* base plus the widths of the scrollable columns before it.
ScrollableFrom(scrollable, start, end, base, pinnedLeftLength) ==
    [k \in 1..(end - start + 1) |->
        VirtualColumn(scrollable[start + k].column,
                      pinnedLeftLength + start + k - 1,
                      base + SumWidths(Before(scrollable, start + k - 1)),
                      scrollable[start + k].width,
                      "false")]

\* The 0-based indices the windowed mode renders.
ColumnWindow(scrollable, availableWidth, left) ==
    LET n == Len(scrollable)
        hits == {i \in 0..(n - 1) :
                    SumWidths(Before(scrollable, i)) + scrollable[i + 1].width > left}
        first == IF hits = {} THEN 0
                 ELSE CHOOSE i \in hits : \A j \in hits : i <= j
        startIndex == Max(0, first - COLUMN_OVERSCAN)
        accumulatedWidth == SumWidths(Before(scrollable, startIndex))
        full == {i \in startIndex..(n - 1) :
                    SumWidths(Before(scrollable, i + 1)) - accumulatedWidth
                        > availableWidth + left - accumulatedWidth}
        last == IF full = {} THEN n - 1
                ELSE CHOOSE i \in full : \A j \in full : i <= j
        endIndex == Min(n - 1, last + COLUMN_OVERSCAN)
    IN  [startIndex |-> startIndex, endIndex |-> endIndex]

\* The variant of visibleScrollableColumns whose window counts its offsets
\* from the left edge of the first rendered column.
VisibleScrollableRelative(enabled, bands, containerWidth, left) ==
    IF ~enabled \/ Len(bands.scrollable) = 0
    THEN ScrollableFrom(bands.scrollable, 0, Len(bands.scrollable) - 1,
                        bands.pinnedLeftWidth, Len(bands.pinnedLeft))
    ELSE LET availableWidth ==
                 containerWidth - bands.pinnedLeftWidth - bands.pinnedRightWidth
             w == ColumnWindow(bands.scrollable, availableWidth, left)
         IN  IF availableWidth <= 0 THEN <<>>
             ELSE ScrollableFrom(bands.scrollable, w.startIndex, w.endIndex,
                                 bands.pinnedLeftWidth
                                    - SumWidths(Before(bands.scrollable, w.startIndex)),
                                 Len(bands.pinnedLeft))

\* The useMemo visibleScrollableColumns.
VisibleScrollable(enabled, bands, containerWidth, left) ==
    IF ~enabled \/ Len(bands.scrollable) = 0
    THEN ScrollableFrom(bands.scrollable, 0, Len(bands.scrollable) - 1,
                        bands.pinnedLeftWidth, Len(bands.pinnedLeft))
    ELSE LET availableWidth ==
                 containerWidth - bands.pinnedLeftWidth - bands.pinnedRightWidth
             w == ColumnWindow(bands.scrollable, availableWidth, left)
         IN  IF availableWidth <= 0 THEN <<>>
             ELSE ScrollableFrom(bands.scrollable, w.startIndex, w.endIndex,
                                 bands.pinnedLeftWidth, Len(bands.pinnedLeft))

\* The useMemos of the pinned columns.
PinnedLeftColumns(bands) ==
    [k \in 1..Len(bands.pinnedLeft) |->
        VirtualColumn(bands.pinnedLeft[k].column, k - 1,
                      SumWidths(Before(bands.pinnedLeft, k - 1)),
                      bands.pinnedLeft[k].width, "left")]

PinnedRightColumns(bands, containerWidth) ==
    [k \in 1..Len(bands.pinnedRight) |->
        VirtualColumn(bands.pinnedRight[k].column,
                      Len(bands.pinnedLeft) + Len(bands.scrollable) + k - 1,
                      containerWidth - bands.pinnedRightWidth
                         + SumWidths(Before(bands.pinnedRight, k - 1)),
                      bands.pinnedRight[k].width, "right")]

\* What a render of useColumnVirtualizer computes and returns.
ColumnsRenderOf(props, left) ==
    LET bands == Bands(props.columns, props.columnWidths, props.defaultColumnWidth)
        center == VisibleScrollable(props.enabled, bands, props.containerWidth, left)
    IN  [rendered |-> TRUE,
         bands |-> bands,
         pinnedLeftColumns |-> PinnedLeftColumns(bands),
         pinnedRightColumns |-> PinnedRightColumns(bands, props.containerWidth),
         visibleColumns |-> center,
         allVirtualColumns |->
             PinnedLeftColumns(bands) \o center
                \o PinnedRightColumns(bands, props.containerWidth),
         scrollLeft |-> left]

\* No render has run yet.
ColumnsNotRendered == [rendered |-> FALSE]

ColVirtIdle ==
    /\ cvProps = [columns |-> <<>>, containerWidth |-> 0,
                  defaultColumnWidth |-> DEFAULT_COLUMN_WIDTH,
                  columnWidths |-> <<>>, enabled |-> TRUE]
    /\ scrollLeft = 0
    /\ rCols = ColumnsNotRendered

\* ========================================================== useColumnManager
\* A ColumnState; column ids are numbers, 0 stands for null.
ColumnState(id, visible, order, pinned) ==
    [id |-> id, visible |-> visible, order |-> order, pinned |-> pinned]

\* initialStates, for n visible unpinned columns with ids 1..n.
InitialStates(n) == [i \in 1..n |-> ColumnState(i, TRUE, i - 1, "false")]

\* Array.from(current.values()).sort((a, b) => a.order - b.order)
RECURSIVE InsertByOrder(_, _)
InsertByOrder(sortedStates, item) ==
    IF sortedStates = <<>> THEN <<item>>
    ELSE IF item.order - Head(sortedStates).order < 0
    THEN <<item>> \o sortedStates
    ELSE <<Head(sortedStates)>> \o InsertByOrder(Tail(sortedStates), item)

RECURSIVE SortByOrder(_)
SortByOrder(current) ==
    IF current = <<>> THEN <<>>
    ELSE InsertByOrder(SortByOrder(SubSeq(current, 1, Len(current) - 1)),
                       current[Len(current)])

\* states.findIndex((s) => s.id === columnId)
FindStateIndex(states, columnId) ==
    LET hits == {i \in 1..Len(states) : states[i].id = columnId}
    IN  IF hits = {} THEN -1
        ELSE (CHOOSE i \in hits : \A j \in hits : i <= j) - 1

\* Where splice(start, ...) starts: a negative start counts from the end.
SpliceStart(n, start) == IF start < 0 THEN Max(n + start, 0) ELSE Min(start, n)

\* states.forEach((state, index) => newMap.set(state.id, {...state, order: index}))
RenumberOrder(states) == [i \in 1..Len(states) |-> [states[i] EXCEPT !.order = i - 1]]

\* The body both updaters share: splice(fromIndex, 1), give up if nothing was
\* removed, splice(toIndex, 0, moved), renumber.
MoveState(current, fromIndex, toIndex) ==
    LET states == SortByOrder(current)
        at == SpliceStart(Len(states), fromIndex)
    IN  IF at >= Len(states) THEN current
        ELSE LET moved == states[at + 1]
                 rest == SubSeq(states, 1, at) \o SubSeq(states, at + 2, Len(states))
             IN  RenumberOrder(SpliceIn(rest, toIndex, moved))

\* What reorderColumns(fromIndex, toIndex) leaves in columnStates.
ReorderColumnsResult(current, fromIndex, toIndex) ==
    IF fromIndex = toIndex THEN current
    ELSE MoveState(current, fromIndex, toIndex)

\* The updater moveColumn(columnId, toIndex) hands to setColumnStates.
MoveColumnUpdater(current, columnId, toIndex) ==
    LET fromIndex == FindStateIndex(SortByOrder(current), columnId)
    IN  IF fromIndex = -1 \/ fromIndex = toIndex THEN current
        ELSE MoveState(current, fromIndex, toIndex)

\* The updater setColumnPinned(columnId, pinned) hands to setColumnStates.
SetColumnPinnedUpdater(current, columnId, pinned) ==
    [i \in 1..Len(current) |->
        IF current[i].id = columnId THEN [current[i] EXCEPT !.pinned = pinned]
        ELSE current[i]]

MgrView(states, dragging, dragOver) ==
    [columnStates |-> states, draggingColumnId |-> dragging,
     dragOverColumnId |-> dragOver]

\* The hook mounted with n columns.
ColMgrMounted(n) ==
    /\ columnStates = InitialStates(n)
    /\ draggingColumnId = 0
    /\ dragOverColumnId = 0
    /\ rMgr = MgrView(InitialStates(n), 0, 0)

ColMgrIdle == ColMgrMounted(0)

\* ============================================================ useKeyboardNav
\* hooks/useKeyboardNav.ts.  The hook keeps no state of its own: onKeyDown is
\* a function of the options of the last render and of the event, and what it
\* does is the calls it makes on the event and on the options' callbacks.

\* utils/constants KEYS, the keys onKeyDown switches on.
KEY_ENTER == "Enter"
KEY_ESCAPE == "Escape"
KEY_TAB == "Tab"
KEY_SPACE == " "
KEY_ARROW_UP == "ArrowUp"
KEY_ARROW_DOWN == "ArrowDown"
KEY_ARROW_LEFT == "ArrowLeft"
KEY_ARROW_RIGHT == "ArrowRight"
KEY_HOME == "Home"
KEY_END == "End"
KEY_PAGE_UP == "PageUp"
KEY_PAGE_DOWN == "PageDown"
KEY_F2 == "F2"
KEY_A == "a"

\* activeCell = null; column id 0 stands for null.
NoActiveCell == [rowIndex |-> -1, columnId |-> 0]
ActiveCell(rowIndex, columnId) == [rowIndex |-> rowIndex, columnId |-> columnId]

\* One call made by onKeyDown: event.preventDefault() or a callback of the
\* options, with its arguments (the ones a callback does not take are blank).
KeyCall(fn, rowIndex, columnId, shiftKey) ==
    [fn |-> fn, rowIndex |-> rowIndex, columnId |-> columnId,
     shiftKey |-> shiftKey]
CallPreventDefault == KeyCall("preventDefault", -1, 0, FALSE)
CallOnCancelEdit == KeyCall("onCancelEdit", -1, 0, FALSE)
CallOnCommitEdit == KeyCall("onCommitEdit", -1, 0, FALSE)
CallOnStartEdit == KeyCall("onStartEdit", -1, 0, FALSE)
CallSetActiveCell(rowIndex, columnId) ==
    KeyCall("setActiveCell", rowIndex, columnId, FALSE)
CallScrollToIndex(rowIndex) == KeyCall("scrollToIndex", rowIndex, 0, FALSE)
CallOnSelectRow(rowIndex, shiftKey) ==
    KeyCall("onSelectRow", rowIndex, 0, shiftKey)

KeyEvent(key, shiftKey, ctrlKey, metaKey) ==
    [key |-> key, shiftKey |-> shiftKey, ctrlKey |-> ctrlKey,
     metaKey |-> metaKey]
NoKeyEvent == KeyEvent("none", FALSE, FALSE, FALSE)

KeyProps(rowCount, columns, activeCell, isEditing, enabled, pageSize) ==
    [rowCount |-> rowCount, columns |-> columns, activeCell |-> activeCell,
     isEditing |-> isEditing, enabled |-> enabled, pageSize |-> pageSize]

\* columns.filter(col => col.visible !== false), and its length.
visibleColumns(props) == SelectSeq(props.columns, LAMBDA c : c.visible)
columnCount(props) == Len(visibleColumns(props))

\* findIndex over the visible columns: -1 if the id is not among them.
getColumnIndex(props, columnId) ==
    LET v == visibleColumns(props)
        hits == {i \in 1..Len(v) : v[i].id = columnId}
    IN  IF hits = {} THEN -1
        ELSE (CHOOSE i \in hits : \A j \in hits : i <= j) - 1

\* The column id at an index of all the columns, hidden ones included.
getColumnIdAtIndexOfAll(props, index) ==
    IF index >= 0 /\ index < Len(props.columns)
    THEN props.columns[index + 1].id
    ELSE 0

\* visibleColumns[index]?.id ?? null
getColumnIdAtIndex(props, index) ==
    LET v == visibleColumns(props)
    IN  IF index >= 0 /\ index < Len(v) THEN v[index + 1].id ELSE 0

clampRow(props, row) == Max(0, Min(row, props.rowCount - 1))
clampColumn(props, col) == Max(0, Min(col, columnCount(props) - 1))

\* moveCell(rowDelta, colDelta, event): the calls it makes.  isTab is
\* event?.key === KEYS.TAB.
moveCell(props, rowDelta, colDelta, isTab) ==
    LET cell == props.activeCell
        last == columnCount(props) - 1
    IN  IF cell = NoActiveCell \/ props.rowCount = 0 \/ columnCount(props) = 0
        THEN LET firstColumnId == getColumnIdAtIndex(props, 0)
             IN  IF firstColumnId # 0
                 THEN <<CallSetActiveCell(0, firstColumnId)>>
                 ELSE <<>>
        ELSE
        LET currentColIndex == getColumnIndex(props, cell.columnId)
            wrapNext == /\ isTab /\ colDelta > 0 /\ currentColIndex = last
                        /\ cell.rowIndex < props.rowCount - 1
            wrapPrev == /\ isTab /\ colDelta < 0
                        /\ ~(colDelta > 0 /\ currentColIndex = last)
                        /\ currentColIndex = 0
                        /\ cell.rowIndex > 0
            newRowIndex == IF wrapNext THEN cell.rowIndex + 1
                           ELSE IF wrapPrev THEN cell.rowIndex - 1
                           ELSE clampRow(props, cell.rowIndex + rowDelta)
            newColIndex == IF wrapNext THEN 0
                           ELSE IF wrapPrev THEN last
                           ELSE clampColumn(props, currentColIndex + colDelta)
            newColumnId == getColumnIdAtIndex(props, newColIndex)
        IN  IF currentColIndex = -1 THEN <<>>
            ELSE IF newColumnId # 0
            THEN <<CallSetActiveCell(newRowIndex, newColumnId),
                   CallScrollToIndex(newRowIndex)>>
            ELSE <<>>

\* The editing branch of onKeyDown with its default case dropped: the keys
\* fall through to the navigation switch.
EditingKeysFallThrough(props, event) == FALSE

\* The editing branch of onKeyDown returns for every key.
EditingKeysReturn(props, event) == props.isEditing

\* onKeyDown(event): the calls it makes.
OnKeyDownCalls(props, event) ==
    LET key == event.key
        shiftKey == event.shiftKey
        isModified == event.ctrlKey \/ event.metaKey
        cell == props.activeCell
        firstColId == getColumnIdAtIndex(props, 0)
        lastColId == getColumnIdAtIndex(props, columnCount(props) - 1)
    IN  IF ~props.enabled THEN <<>>
        ELSE IF props.isEditing /\ key = KEY_ESCAPE
        THEN <<CallPreventDefault, CallOnCancelEdit>>
        ELSE IF props.isEditing /\ key = KEY_ENTER
        THEN <<CallPreventDefault, CallOnCommitEdit>> \o moveCell(props, 1, 0, FALSE)
        ELSE IF props.isEditing /\ key = KEY_TAB
        THEN <<CallPreventDefault, CallOnCommitEdit>>
                \o moveCell(props, 0, IF shiftKey THEN -1 ELSE 1, TRUE)
        ELSE IF EditingKeysReturn(props, event) THEN <<>>
        ELSE IF key = KEY_ARROW_UP
        THEN <<CallPreventDefault>> \o moveCell(props, -1, 0, FALSE)
        ELSE IF key = KEY_ARROW_DOWN
        THEN <<CallPreventDefault>> \o moveCell(props, 1, 0, FALSE)
        ELSE IF key = KEY_ARROW_LEFT
        THEN <<CallPreventDefault>> \o moveCell(props, 0, -1, FALSE)
        ELSE IF key = KEY_ARROW_RIGHT
        THEN <<CallPreventDefault>> \o moveCell(props, 0, 1, FALSE)
        ELSE IF key = KEY_TAB
        THEN <<CallPreventDefault>>
                \o moveCell(props, 0, IF shiftKey THEN -1 ELSE 1, TRUE)
        ELSE IF key = KEY_PAGE_UP
        THEN <<CallPreventDefault>> \o moveCell(props, -props.pageSize, 0, FALSE)
        ELSE IF key = KEY_PAGE_DOWN
        THEN <<CallPreventDefault>> \o moveCell(props, props.pageSize, 0, FALSE)
        ELSE IF key = KEY_HOME
        THEN <<CallPreventDefault>> \o
             (IF isModified
              THEN IF firstColId # 0
                   THEN <<CallSetActiveCell(0, firstColId), CallScrollToIndex(0)>>
                   ELSE <<>>
              ELSE IF firstColId # 0 /\ cell # NoActiveCell
                   THEN <<CallSetActiveCell(cell.rowIndex, firstColId)>>
                   ELSE <<>>)
        ELSE IF key = KEY_END
        THEN <<CallPreventDefault>> \o
             (IF isModified
              THEN IF lastColId # 0
                   THEN <<CallSetActiveCell(props.rowCount - 1, lastColId),
                          CallScrollToIndex(props.rowCount - 1)>>
                   ELSE <<>>
              ELSE IF lastColId # 0 /\ cell # NoActiveCell
                   THEN <<CallSetActiveCell(cell.rowIndex, lastColId)>>
                   ELSE <<>>)
        ELSE IF key = KEY_ENTER \/ key = KEY_F2
        THEN <<CallPreventDefault, CallOnStartEdit>>
        ELSE IF key = KEY_SPACE
        THEN <<CallPreventDefault>> \o
             (IF cell # NoActiveCell
              THEN <<CallOnSelectRow(cell.rowIndex, shiftKey)>>
              ELSE <<>>)
        ELSE IF key = KEY_A /\ isModified
        THEN <<CallPreventDefault>>
        ELSE <<>>

\* The hook as rendered with the given options, no key pressed yet.
KeyMounted(props) ==
    /\ kProps = props
    /\ keyEvent = NoKeyEvent
    /\ keyCalls = <<>>

KeyIdle == KeyMounted(KeyProps(0, <<>>, NoActiveCell, FALSE, TRUE, 1))

\* =============================================================== DataGrid
\* The DataGrid component keeps its own columns and its own undo history.
\* A column is its id, width, minWidth and maxWidth; 0 stands for an optional
\* bound that is not given (the code's `||` treats 0 and undefined alike).
GridColumn(id, width, minWidth, maxWidth) ==
    [id |-> id, width |-> width, minWidth |-> minWidth, maxWidth |-> maxWidth]

\* col.minWidth || 50 and col.maxWidth || 500
FALLBACK_MIN_WIDTH == 50
FALLBACK_MAX_WIDTH == 500

\* The width handleMouseMove gives the resized column for a pointer movement
\* of delta.
ResizedWidth(col, delta) ==
    Max(IF col.minWidth # 0 THEN col.minWidth ELSE FALLBACK_MIN_WIDTH,
        Min(IF col.maxWidth # 0 THEN col.maxWidth ELSE FALLBACK_MAX_WIDTH,
            col.width + delta))

\* prev.map(col => col.id !== resizingColumn ? col : {...col, width: newWidth})
ResizeColumn(columns, resizingColumn, delta) ==
    [i \in 1..Len(columns) |->
        IF columns[i].id # resizingColumn THEN columns[i]
        ELSE [columns[i] EXCEPT !.width = ResizedWidth(columns[i], delta)]]

\* The entry handleMouseUp records.
ColumnResizeEntry(columnId, previousColumns, newColumns) ==
    [type |-> "columnResize", columnId |-> columnId,
     previousColumns |-> previousColumns, newColumns |-> newColumns]

\* addToHistory(entry), in a render that saw history and historyIndex: the
\* history it sets.
addToHistory(h, index, entry) == Append(Slice(h, 0, index + 1), entry)

\* handleKeyDown, case "Tab": the cell it focuses from focusedCell, in a grid
\* of visibleCount visible columns (visibleCols.length) and dataLength rows.
TabFocus(focusedCell, visibleCount, dataLength, shiftKey) ==
    LET row == focusedCell.row
        col == focusedCell.col
    IN  IF shiftKey
        THEN LET newCol == IF col > 0 THEN col - 1 ELSE visibleCount - 1
             IN  [row |-> IF newCol = visibleCount - 1 THEN Max(0, row - 1)
                          ELSE row,
                  col |-> newCol]
        ELSE LET newCol == IF col < visibleCount - 1 THEN col + 1 ELSE 0
             IN  [row |-> IF newCol = 0 THEN Min(dataLength - 1, row + 1)
                          ELSE row,
                  col |-> newCol]

\* The widths of the columns, in order.
Widths(columns) == [i \in 1..Len(columns) |-> columns[i].width]

NoResizeDrag ==
    [phase |-> "none", before |-> <<>>, after |-> <<>>, entries |-> 0,
     moves |-> 0, fresh |-> FALSE]

\* The component as mounted with the given columns: nothing resized, nothing
\* recorded, no cell edited.
DataGridMounted(initialColumns) ==
    /\ dataGrid = [columns |-> initialColumns, resizingColumn |-> 0,
                   dragStartX |-> 0, history |-> <<>>, historyIndex |-> -1,
                   editingCell |-> 0]
    /\ rDataGrid = dataGrid
    /\ dataGridOp = "none"
    /\ resizeDrag = NoResizeDrag

DataGridIdle == DataGridMounted(<<>>)

ViewIdle == VirtIdle /\ ColVirtIdle /\ ColMgrIdle /\ KeyIdle /\ DataGridIdle

notGrid == <<historyVars, tripVars, hookVars, sortVars, viewVars>>
notHistory == <<gridVars, hookVars, sortVars, viewVars>>

\* ------------------------------------------------ useUndoRedo: pushAction
NewActionUntagged(n, ref) == [id |-> n, batchId |-> 0]

\* The entry pushAction builds: the action, tagged with batchIdRef.current.
NewAction(n, ref) == [id |-> n, batchId |-> ref]

PushHistoryNoTrim(current, closureIndex, newAction, max) ==
    Append(Slice(current, 0, closureIndex + 1), newAction)

\* The updater pushAction hands to setHistory; closureIndex is the historyIndex
\* the callback closed over.
PushHistory(current, closureIndex, newAction, max) ==
    LET newHistory == Append(Slice(current, 0, closureIndex + 1), newAction)
    IN  IF Len(newHistory) > max THEN SliceFrom(newHistory, -max) ELSE newHistory

\* The updater pushAction hands to setHistoryIndex.
PushIndex(current, max) == Min(current + 1, max - 1)

\* ------------------------------------------------- useUndoRedo: undo / redo
CanUndo == rHistoryIndex >= 0
CanRedo == rHistoryIndex < Len(rHistory) - 1

RECURSIVE BatchStartIndex(_, _, _)
BatchStartIndex(h, i, b) ==
    IF i > 0 /\ At(h, i - 1).batchId = b THEN BatchStartIndex(h, i - 1, b) ELSE i

RECURSIVE BatchEndIndex(_, _, _)
BatchEndIndex(h, i, b) ==
    IF i < Len(h) - 1 /\ At(h, i + 1).batchId = b THEN BatchEndIndex(h, i + 1, b) ELSE i

UndoResultSingleStep(h, idx) ==
    LET action == At(h, idx)
    IN  IF ~(idx >= 0) \/ action = NoEntry
        THEN [index |-> idx, report |-> <<>>, moved |-> FALSE]
        ELSE [index |-> idx - 1, report |-> <<action>>, moved |-> TRUE]

\* What undo() does when it sees history h and cursor idx: the cursor it sets,
\* the entries it passes to onUndo, in order, and whether it set the cursor.
UndoResult(h, idx) ==
    LET action == At(h, idx)
    IN  IF ~(idx >= 0) \/ action = NoEntry
        THEN [index |-> idx, report |-> <<>>, moved |-> FALSE]
        ELSE IF action.batchId # 0
        THEN LET start == BatchStartIndex(h, idx, action.batchId)
             IN  [index |-> start - 1,
                  report |-> Reverse(Slice(h, start, idx + 1)),
                  moved |-> TRUE]
        ELSE [index |-> idx - 1, report |-> <<action>>, moved |-> TRUE]

\* What redo() does when it sees history h and cursor idx.
RedoResult(h, idx) ==
    LET action == At(h, idx + 1)
    IN  IF ~(idx < Len(h) - 1) \/ action = NoEntry
        THEN [index |-> idx, report |-> <<>>, moved |-> FALSE]
        ELSE IF action.batchId # 0
        THEN LET end == BatchEndIndex(h, idx + 1, action.batchId)
             IN  [index |-> end,
                  report |-> Slice(h, idx + 1, end + 1),
                  moved |-> TRUE]
        ELSE [index |-> idx + 1, report |-> <<action>>, moved |-> TRUE]

\* ------------------------------------------------------- useUndoRedo: state
HistoryInit ==
    /\ maxHistorySize \in 1..MaxHistorySize
    /\ history = <<>>
    /\ historyIndex = -1
    /\ rHistory = <<>>
    /\ rHistoryIndex = -1
    /\ batchIdRef = 0
    /\ batchCount = 0
    /\ pushCount = 0
    /\ lastOp = "none"
    /\ lastReport = <<>>
    /\ lastStartBatch = 0
    /\ batchOpen = FALSE
    /\ batchReplaced = FALSE

TripIdle ==
    /\ phase = "build"
    /\ snapHistory = <<>>
    /\ snapIndex = -1

\* pushAction(action)
PushAction ==
    /\ pushCount < MaxPushes
    /\ pushCount' = pushCount + 1
    /\ history' = PushHistory(history, rHistoryIndex,
                              NewAction(pushCount + 1, batchIdRef), maxHistorySize)
    /\ historyIndex' = PushIndex(historyIndex, maxHistorySize)
    /\ lastOp' = "push"
    /\ lastReport' = <<>>
    /\ UNCHANGED <<maxHistorySize, rHistory, rHistoryIndex, batchIdRef, batchCount,
                   lastStartBatch, batchOpen, batchReplaced>>

\* undo()
Undo ==
    /\ LET r == UndoResult(rHistory, rHistoryIndex)
       IN  /\ historyIndex' = IF r.moved THEN r.index ELSE historyIndex
           /\ lastReport' = r.report
    /\ lastOp' = "undo"
    /\ UNCHANGED <<maxHistorySize, history, rHistory, rHistoryIndex, batchIdRef,
                   batchCount, pushCount, lastStartBatch, batchOpen, batchReplaced>>

\* redo()
Redo ==
    /\ LET r == RedoResult(rHistory, rHistoryIndex)
       IN  /\ historyIndex' = IF r.moved THEN r.index ELSE historyIndex
           /\ lastReport' = r.report
    /\ lastOp' = "redo"
    /\ UNCHANGED <<maxHistorySize, history, rHistory, rHistoryIndex, batchIdRef,
                   batchCount, pushCount, lastStartBatch, batchOpen, batchReplaced>>

\* clearHistory()
ClearHistory ==
    /\ history' = <<>>
    /\ historyIndex' = -1
    /\ lastOp' = "clear"
    /\ lastReport' = <<>>
    /\ UNCHANGED <<maxHistorySize, rHistory, rHistoryIndex, batchIdRef, batchCount,
                   pushCount, lastStartBatch, batchOpen, batchReplaced>>

\* startBatch(description): a fresh id replaces whatever the ref held.
StartBatch ==
    /\ batchCount < MaxBatches
    /\ batchCount' = batchCount + 1
    /\ batchIdRef' = batchCount + 1
    /\ lastStartBatch' = batchCount + 1
    /\ batchOpen' = TRUE
    /\ batchReplaced' = batchOpen
    /\ lastOp' = "startBatch"
    /\ lastReport' = <<>>
    /\ UNCHANGED <<maxHistorySize, history, historyIndex, rHistory, rHistoryIndex,
                   pushCount>>

\* endBatch()
EndBatch ==
    /\ batchIdRef' = 0
    /\ batchOpen' = FALSE
    /\ batchReplaced' = FALSE
    /\ lastOp' = "endBatch"
    /\ lastReport' = <<>>
    /\ UNCHANGED <<maxHistorySize, history, historyIndex, rHistory, rHistoryIndex,
                   batchCount, pushCount, lastStartBatch>>

\* React re-renders the hook: the queued state becomes what the callbacks see.
Render ==
    /\ <<rHistory, rHistoryIndex>> # <<history, historyIndex>>
    /\ rHistory' = history
    /\ rHistoryIndex' = historyIndex
    /\ lastOp' = "render"
    /\ lastReport' = <<>>
    /\ UNCHANGED <<maxHistorySize, history, historyIndex, batchIdRef, batchCount,
                   pushCount, lastStartBatch, batchOpen, batchReplaced>>

HistoryNext ==
    \/ PushAction /\ UNCHANGED <<tripVars, notHistory>>
    \/ Undo /\ UNCHANGED <<tripVars, notHistory>>
    \/ Redo /\ UNCHANGED <<tripVars, notHistory>>
    \/ ClearHistory /\ UNCHANGED <<tripVars, notHistory>>
    \/ StartBatch /\ UNCHANGED <<tripVars, notHistory>>
    \/ EndBatch /\ UNCHANGED <<tripVars, notHistory>>
    \/ Render /\ UNCHANGED <<tripVars, notHistory>>

InitHistory ==
    /\ HistoryInit
    /\ TripIdle
    /\ GridIdle
    /\ HookIdle
    /\ ViewIdle
    /\ SortIdle

\* Any sequence of calls on the hook, with re-renders wherever React puts them.
SpecHistory == InitHistory /\ [][HistoryNext]_vars

\* ------------------------------------------------- the undo/redo round trip
\* A caller pushes actions, then calls undo() while canUndo, then redo() while
\* canRedo; canUndo and canRedo are the values of the last render.
UpToDate == <<rHistory, rHistoryIndex>> = <<history, historyIndex>>

TripBegin ==
    /\ phase = "build"
    /\ pushCount >= 1
    /\ UpToDate
    /\ phase' = "undoing"
    /\ snapHistory' = rHistory
    /\ snapIndex' = rHistoryIndex
    /\ UNCHANGED <<historyVars, notHistory>>

TripUndo ==
    /\ phase = "undoing"
    /\ CanUndo
    /\ Undo
    /\ UNCHANGED <<tripVars, notHistory>>

TripUndoEnd ==
    /\ phase = "undoing"
    /\ ~CanUndo
    /\ phase' = "redoing"
    /\ UNCHANGED <<historyVars, snapHistory, snapIndex, notHistory>>

TripRedo ==
    /\ phase = "redoing"
    /\ CanRedo
    /\ Redo
    /\ UNCHANGED <<tripVars, notHistory>>

TripRedoEnd ==
    /\ phase = "redoing"
    /\ ~CanRedo
    /\ phase' = "done"
    /\ UNCHANGED <<historyVars, snapHistory, snapIndex, notHistory>>

TripNext ==
    \/ phase = "build" /\ PushAction /\ UNCHANGED <<tripVars, notHistory>>
    \/ phase = "build" /\ StartBatch /\ UNCHANGED <<tripVars, notHistory>>
    \/ phase = "build" /\ EndBatch /\ UNCHANGED <<tripVars, notHistory>>
    \/ Render /\ UNCHANGED <<tripVars, notHistory>>
    \/ TripBegin
    \/ TripUndo
    \/ TripUndoEnd
    \/ TripRedo
    \/ TripRedoEnd

InitTrip ==
    /\ HistoryInit
    /\ TripIdle
    /\ GridIdle
    /\ HookIdle
    /\ ViewIdle
    /\ SortIdle

SpecRoundTrip == InitTrip /\ [][TripNext]_vars

\* ------------------------------------------------- useGridState: behaviours
HistoryIdle ==
    /\ maxHistorySize = 1
    /\ history = <<>>
    /\ historyIndex = -1
    /\ rHistory = <<>>
    /\ rHistoryIndex = -1
    /\ batchIdRef = 0
    /\ batchCount = 0
    /\ pushCount = 0
    /\ lastOp = "none"
    /\ lastReport = <<>>
    /\ lastStartBatch = 0
    /\ batchOpen = FALSE
    /\ batchReplaced = FALSE

DispatchSelectRow ==
    \E rowId \in RowIds, multi \in BOOLEAN : Dispatch(selectRow(rowId, multi))

DispatchDeselectRow == \E rowId \in RowIds : Dispatch(deselectRow(rowId))

DispatchSelectAll == \E rowIds \in SUBSET RowIds : Dispatch(selectAll(rowIds))

DispatchDeselectAll == Dispatch(deselectAll)

\* SELECT_RANGE is an action of the type the reducer has no case for.
DispatchSelectRange ==
    \E a \in RowIds, b \in RowIds :
        Dispatch([type |-> "SELECT_RANGE", startRowId |-> a, endRowId |-> b,
                  rowIds |-> {a, b}])

DispatchSetActiveCell == \E cell \in Cells \cup {NoCell} : Dispatch(setActiveCell(cell))

DispatchSelectCell == \E cell \in Cells : Dispatch([type |-> "SELECT_CELL", cell |-> cell])

DispatchSelectCellRange ==
    \E start \in Cells, end \in Cells :
        Dispatch([type |-> "SELECT_CELL_RANGE", start |-> start, end |-> end])

SelectionNext ==
    \/ DispatchSelectRow /\ UNCHANGED notGrid
    \/ DispatchDeselectRow /\ UNCHANGED notGrid
    \/ DispatchSelectAll /\ UNCHANGED notGrid
    \/ DispatchDeselectAll /\ UNCHANGED notGrid
    \/ DispatchSelectRange /\ UNCHANGED notGrid
    \/ DispatchSetActiveCell /\ UNCHANGED notGrid
    \/ DispatchSelectCell /\ UNCHANGED notGrid
    \/ DispatchSelectCellRange /\ UNCHANGED notGrid

\* useGridState with any initialSelection and any selectionMode.
InitSelection ==
    /\ HistoryIdle
    /\ TripIdle
    /\ lastType = "none"
    /\ HookIdle
    /\ ViewIdle
    /\ SortIdle
    /\ \E initialSelection \in SUBSET RowIds, selectionMode \in Modes :
           state = createInitialGridState(NoSort, initialSelection, selectionMode)

SpecSelection == InitSelection /\ [][SelectionNext]_vars

\* useGridState with no initialSelection.
InitSelectionEmpty ==
    /\ HistoryIdle
    /\ TripIdle
    /\ lastType = "none"
    /\ HookIdle
    /\ ViewIdle
    /\ SortIdle
    /\ \E selectionMode \in Modes :
           state = createInitialGridState(NoSort, {}, selectionMode)

SpecSelectionEmpty == InitSelectionEmpty /\ [][SelectionNext]_vars

DispatchEditStart ==
    \E cell \in Cells, value \in Values : Dispatch(startEdit(cell, value))

DispatchEditChange == \E value \in Values : Dispatch(changeEdit(value))

DispatchEditCommit ==
    /\ Len(state.editHistory) < MaxEdits
    /\ \E rowId \in RowIds, columnId \in Columns : Dispatch(commitEdit(rowId, columnId))

DispatchEditCancel == Dispatch(cancelEdit)

DispatchEditUndo == Dispatch([type |-> "EDIT_UNDO"])

DispatchEditRedo == Dispatch([type |-> "EDIT_REDO"])

EditNext ==
    \/ DispatchEditStart /\ UNCHANGED notGrid
    \/ DispatchEditChange /\ UNCHANGED notGrid
    \/ DispatchEditCommit /\ UNCHANGED notGrid
    \/ DispatchEditCancel /\ UNCHANGED notGrid
    \/ DispatchEditUndo /\ UNCHANGED notGrid
    \/ DispatchEditRedo /\ UNCHANGED notGrid

InitEdit ==
    /\ HistoryIdle
    /\ TripIdle
    /\ GridIdle
    /\ HookIdle
    /\ ViewIdle
    /\ SortIdle

SpecEdit == InitEdit /\ [][EditNext]_vars

\* ------------------------------------------------ the grid over sorted rows
\* The declared data type of a column: c1 as configured, c2 numeric.
ColumnType(columnId) == IF columnId = "c1" THEN colType ELSE "number"

\* The rows in the order the grid shows them: a CellCoordinate's rowIndex is
\* an index into this sequence.
ViewRows(rows, sort) ==
    IF sort = NoSort THEN rows
    ELSE sortByAccessor(rows, sort.columnId, ColumnType(sort.columnId), sort.direction)

\* The id of the row shown at rowIndex, 0 if none is.
RowIdAt(rows, sort, rowIndex) ==
    LET view == ViewRows(rows, sort)
    IN  IF rowIndex >= 0 /\ rowIndex < Len(view) THEN view[rowIndex + 1].id ELSE 0

\* MaxRows rows with ids 1..MaxRows in input order; c2 alternates 2, 1.
GridRows ==
    {[i \in 1..MaxRows |-> Row(i, c1[i], Num(1 + (i % 2)))] :
        c1 \in [1..MaxRows -> {Str("a"), Str("B")}]}

SortStates == [columnId : Columns, direction : {"asc", "desc", "null"}]

DispatchSortSet == \E sort \in SortStates : Dispatch(setSort(sort))

DispatchSortToggle == \E columnId \in Columns : Dispatch(toggleSort(columnId))

DispatchSortClear == Dispatch(clearSort)

GridSortNext ==
    \/ DispatchSortSet /\ UNCHANGED notGrid
    \/ DispatchSortToggle /\ UNCHANGED notGrid
    \/ DispatchSortClear /\ UNCHANGED notGrid
    \/ DispatchEditStart /\ UNCHANGED notGrid
    \/ DispatchEditCancel /\ UNCHANGED notGrid
    \/ DispatchSetActiveCell /\ UNCHANGED notGrid
    \/ DispatchSelectCellRange /\ UNCHANGED notGrid

\* useGridState over the caller's rows.
InitGridSort ==
    /\ HistoryIdle
    /\ TripIdle
    /\ GridIdle
    /\ HookIdle
    /\ ViewIdle
    /\ data \in GridRows
    /\ colType = "string"
    /\ maxSorts = 1
    /\ sorts = <<>>
    /\ sortOp = "none"
    /\ evicted = "null"
    /\ sorted = NotSorted

SpecGridSort == InitGridSort /\ [][GridSortNext]_vars

\* ------------------------------------------------- useMultiSort: callbacks
\* setSorts always gets an updater, so the list after a call does not depend
\* on when React re-renders; sorts is the list the next render shows.
\* toggleSort(columnId, accessorKey, dataType, additive)
ToggleSort ==
    /\ \E columnId \in SortColumns, additive \in BOOLEAN :
          /\ sorts' = ToggleSortUpdater(sorts, columnId, columnId,
                                        ColumnType(columnId), additive, maxSorts)
          /\ evicted' = IF /\ FindIndex(sorts, columnId) = -1
                           /\ additive
                           /\ Len(sorts) >= maxSorts
                           /\ Len(sorts) > 0
                        THEN sorts[1].columnId ELSE "null"
    /\ sortOp' = "toggleSort"
    /\ UNCHANGED <<data, colType, maxSorts, sorted>>

\* addSort(columnId, accessorKey, dataType, direction); a null direction
\* returns before setSorts.
AddSort ==
    /\ \E columnId \in SortColumns, direction \in Directions \cup {"null"} :
          sorts' = IF direction = "null" THEN sorts
                   ELSE AddSortUpdater(sorts, columnId, columnId,
                                       ColumnType(columnId), direction, maxSorts)
    /\ sortOp' = "addSort"
    /\ evicted' = "null"
    /\ UNCHANGED <<data, colType, maxSorts, sorted>>

\* removeSort(columnId)
RemoveSort ==
    /\ \E columnId \in SortColumns : sorts' = RemoveSortUpdater(sorts, columnId)
    /\ sortOp' = "removeSort"
    /\ evicted' = "null"
    /\ UNCHANGED <<data, colType, maxSorts, sorted>>

\* clearSorts()
ClearSorts ==
    /\ sorts' = <<>>
    /\ sortOp' = "clearSorts"
    /\ evicted' = "null"
    /\ UNCHANGED <<data, colType, maxSorts, sorted>>

\* moveSortPriority(columnId, newPriority), with any number for newPriority.
MoveSortPriority ==
    /\ \E columnId \in SortColumns, newPriority \in (-1)..MaxSorts :
          sorts' = MoveSortPriorityUpdater(sorts, columnId, newPriority)
    /\ sortOp' = "moveSortPriority"
    /\ evicted' = "null"
    /\ UNCHANGED <<data, colType, maxSorts, sorted>>

\* sortData(data)
SortDataCall ==
    /\ sorted' = [called |-> TRUE, rows |-> SortData(data, sorts)]
    /\ sortOp' = "sortData"
    /\ evicted' = "null"
    /\ UNCHANGED <<data, colType, maxSorts, sorts>>

notSort == <<historyVars, tripVars, gridVars, hookVars, viewVars>>

\* The rows of the sorting scenario: Bob, Ann, Cid.
ScenarioRows ==
    <<Row(1, Str("Bob"), Num(1)), Row(2, Str("Ann"), Num(2)), Row(3, Str("Cid"), Num(3))>>

MultiSortNext ==
    \/ ToggleSort /\ UNCHANGED notSort
    \/ AddSort /\ UNCHANGED notSort
    \/ RemoveSort /\ UNCHANGED notSort
    \/ ClearSorts /\ UNCHANGED notSort
    \/ MoveSortPriority /\ UNCHANGED notSort
    \/ SortDataCall /\ UNCHANGED notSort
    \/ DispatchSortToggle /\ UNCHANGED notGrid
    \/ DispatchSortSet /\ UNCHANGED notGrid
    \/ DispatchSortClear /\ UNCHANGED notGrid

\* useMultiSort with no initialSorts and a maxSorts of at least 1, next to the
\* single-column sort of useGridState.
InitMultiSort ==
    /\ HistoryIdle
    /\ TripIdle
    /\ GridIdle
    /\ HookIdle
    /\ ViewIdle
    /\ data = ScenarioRows
    /\ colType = "string"
    /\ maxSorts \in 1..MaxSorts
    /\ sorts = <<>>
    /\ sortOp = "none"
    /\ evicted = "null"
    /\ sorted = NotSorted

SpecMultiSort == InitMultiSort /\ [][MultiSortNext]_vars

\* ---------------------------------------------- sortData on the caller's rows
\* The values of column c1: null, undefined, a number, a numeric string, two
\* strings that differ only in case, false and true.
KeyValues ==
    {JsNull, JsUndefined, Num(3), Str("2020"), Str("a"), Str("A"), Bool(FALSE),
     Bool(TRUE)}

\* The sequences of n rows with ids 1..n in input order; c1 holds any values,
\* c2 alternates between 1 and 2, starting with either.
DataRows(n) ==
    {[i \in 1..n |-> Row(i, c1[i], Num(1 + ((i + k) % 2)))] :
        c1 \in [1..n -> KeyValues], k \in {0, 1}}

\* The sort lists useMultiSort can hold over the columns c1 and c2.
SortListsOf(type) ==
    LET item(c, d, p) == SortItem(c, c, IF c = "c1" THEN type ELSE "number", d, p)
    IN  {<<>>} \cup
        {<<item(c, d, 0)>> : c \in Columns, d \in Directions} \cup
        {<<item(c[1], d[1], 0), item(c[2], d[2], 1)>> :
            c \in {<<"c1", "c2">>, <<"c2", "c1">>}, d \in Directions \X Directions}

\* A render of useMultiSort with some sort list, and the caller's rows.
InitSortData ==
    /\ HistoryIdle
    /\ TripIdle
    /\ GridIdle
    /\ HookIdle
    /\ ViewIdle
    /\ \E n \in 0..MaxData : data \in DataRows(n)
    /\ colType \in DataTypes
    /\ maxSorts = MaxSorts
    /\ sorts \in SortListsOf(colType)
    /\ sortOp = "none"
    /\ evicted = "null"
    /\ sorted = NotSorted

SortDataNext == SortDataCall /\ UNCHANGED notSort

SpecSortData == InitSortData /\ [][SortDataNext]_vars

\* --------------------------------------------- useGridState: the callbacks
\* The callbacks read state as the last render saw it (rState); dispatch acts
\* on the reducer's current state. The caller supplies onCellChange.
\* One invocation onCellChange(rowId, columnId, third, fourth).
CellChange(rowId, columnId, third, fourth) ==
    [rowId |-> rowId, columnId |-> columnId, third |-> third, fourth |-> fourth]

\* editHistory[i], undefined outside the array.
NoEdit == [rowId |-> 0, columnId |-> "null", oldValue |-> Null, newValue |-> Null]
EditAt(h, i) == IF i >= 0 /\ i < Len(h) THEN h[i + 1] ELSE NoEdit

\* The suspended call, if any, after the edit session has ended.
SessionEnded(call) == IF call.active THEN [call EXCEPT !.ended = TRUE] ELSE call

\* The cell the caller edits in these runs.
EditedCell == [rowIndex |-> 0, columnId |-> "c1"]

\* startEdit(cell, value)
HookStartEdit ==
    /\ Dispatch(startEdit(EditedCell, "v1"))
    /\ hookOp' = "startEdit"
    /\ lastCalls' = <<>>
    /\ awaiting' = SessionEnded(awaiting)
    /\ UNCHANGED rState

\* changeEdit(value)
HookChangeEdit ==
    /\ \E value \in Values : Dispatch(changeEdit(value))
    /\ hookOp' = "changeEdit"
    /\ lastCalls' = <<>>
    /\ UNCHANGED <<rState, awaiting>>

\* cancelEdit()
HookCancelEdit ==
    /\ Dispatch(cancelEdit)
    /\ hookOp' = "cancelEdit"
    /\ lastCalls' = <<>>
    /\ awaiting' = SessionEnded(awaiting)
    /\ UNCHANGED rState

\* commitEdit(rowId, columnId), up to its await: it invokes onCellChange with
\* the values of the last render and suspends until the callback's promise
\* settles. (currentValue is never undefined: it starts as null.)
HookCommitEditCall ==
    /\ ~awaiting.active
    /\ Len(state.editHistory) < MaxEdits
    /\ \E rowId \in RowIds :
           /\ lastCalls' = <<CellChange(rowId, "c1", rState.edit.currentValue,
                                         rState.edit.originalValue)>>
           /\ awaiting' = [active |-> TRUE, rowId |-> rowId, columnId |-> "c1",
                           newValue |-> rState.edit.currentValue,
                           oldValue |-> rState.edit.originalValue,
                           fresh |-> rState = state,
                           ended |-> FALSE]
    /\ hookOp' = "commitEdit"
    /\ UNCHANGED <<gridVars, rState>>

\* commitEdit after its await: the promise has resolved, the commit is
\* dispatched. A promise that never settles never lets this step happen.
HookCommitEditResume ==
    /\ awaiting.active
    /\ Dispatch(commitEdit(awaiting.rowId, awaiting.columnId))
    /\ awaiting' = NoCommit
    /\ hookOp' = "commitEditResumed"
    /\ lastCalls' = <<>>
    /\ UNCHANGED rState

\* undo()
HookUndo ==
    /\ hookOp' = "undo"
    /\ IF rState.historyIndex >= 0
       THEN LET edit == EditAt(rState.editHistory, rState.historyIndex)
            IN  /\ lastCalls' = IF edit # NoEdit
                                THEN <<CellChange(edit.rowId, edit.columnId,
                                                  edit.oldValue, edit.newValue)>>
                                ELSE <<>>
                /\ Dispatch([type |-> "EDIT_UNDO"])
       ELSE /\ lastCalls' = <<>>
            /\ UNCHANGED gridVars
    /\ UNCHANGED <<rState, awaiting>>

\* redo()
HookRedo ==
    /\ hookOp' = "redo"
    /\ IF rState.historyIndex < Len(rState.editHistory) - 1
       THEN LET edit == EditAt(rState.editHistory, rState.historyIndex + 1)
            IN  /\ lastCalls' = IF edit # NoEdit
                                THEN <<CellChange(edit.rowId, edit.columnId,
                                                  edit.newValue, edit.oldValue)>>
                                ELSE <<>>
                /\ Dispatch([type |-> "EDIT_REDO"])
       ELSE /\ lastCalls' = <<>>
            /\ UNCHANGED gridVars
    /\ UNCHANGED <<rState, awaiting>>

\* React re-renders the component: the callbacks are rebuilt over state.
HookRender ==
    /\ rState # state
    /\ rState' = state
    /\ hookOp' = "render"
    /\ lastCalls' = <<>>
    /\ UNCHANGED <<gridVars, awaiting>>

notHook == <<historyVars, tripVars, sortVars, viewVars>>

GridHookNext ==
    \/ HookStartEdit /\ UNCHANGED notHook
    \/ HookChangeEdit /\ UNCHANGED notHook
    \/ HookCancelEdit /\ UNCHANGED notHook
    \/ HookCommitEditCall /\ UNCHANGED notHook
    \/ HookCommitEditResume /\ UNCHANGED notHook
    \/ HookUndo /\ UNCHANGED notHook
    \/ HookRedo /\ UNCHANGED notHook
    \/ HookRender /\ UNCHANGED notHook

InitGridHook ==
    /\ HistoryIdle
    /\ TripIdle
    /\ GridIdle
    /\ HookIdle
    /\ ViewIdle
    /\ SortIdle

\* Any sequence of calls on useGridState's edit callbacks, with re-renders
\* wherever React puts them.
SpecGridHook == InitGridHook /\ [][GridHookNext]_vars

\* ------------------------------- useGridState: sort and selection callbacks
\* One invocation onSortChange(sort) or onSelectionChange(selectedIds).
SortChange(sort) == [callback |-> "onSortChange", sort |-> sort]
SelectionChange(selectedIds) ==
    [callback |-> "onSelectionChange", selectedIds |-> selectedIds]

\* toggleSort(columnId): dispatches, then works the new sort out of the sort
\* of the last render and reports it.
HookToggleSort(columnId) ==
    /\ Dispatch(toggleSort(columnId))
    /\ LET currentSort == rState.sort
           newSort == IF currentSort.columnId # columnId
                      THEN [columnId |-> columnId, direction |-> "asc"]
                      ELSE IF currentSort.direction = "asc"
                      THEN [columnId |-> columnId, direction |-> "desc"]
                      ELSE NoSort
       IN  lastCalls' = <<SortChange(newSort)>>
    /\ hookOp' = "toggleSort"
    /\ UNCHANGED <<rState, awaiting>>

\* selectRow(rowId, multi): dispatches, then works the new selection out of
\* the selection of the last render and the selectionMode option.
HookSelectRow(rowId, multi) ==
    /\ Dispatch(selectRow(rowId, multi))
    /\ LET selectionMode == rState.selection.mode
           kept == IF selectionMode = "single" \/ ~multi
                   THEN {}
                   ELSE rState.selection.selectedRowIds
           newSelectedIds == IF rowId \in kept
                             THEN kept \ {rowId}
                             ELSE kept \cup {rowId}
       IN  lastCalls' = <<SelectionChange(newSelectedIds)>>
    /\ hookOp' = "selectRow"
    /\ UNCHANGED <<rState, awaiting>>

\* deselectAll()
HookDeselectAll ==
    /\ Dispatch(deselectAll)
    /\ lastCalls' = <<SelectionChange({})>>
    /\ hookOp' = "deselectAll"
    /\ UNCHANGED <<rState, awaiting>>

\* selectAll(rowIds)
HookSelectAll(rowIds) ==
    /\ Dispatch(selectAll(rowIds))
    /\ lastCalls' = <<SelectionChange(rowIds)>>
    /\ hookOp' = "selectAll"
    /\ UNCHANGED <<rState, awaiting>>

GridChangeNext ==
    \/ (\E columnId \in SortColumns : HookToggleSort(columnId))
          /\ UNCHANGED notHook
    \/ (\E rowId \in RowIds, multi \in BOOLEAN : HookSelectRow(rowId, multi))
          /\ UNCHANGED notHook
    \/ HookDeselectAll /\ UNCHANGED notHook
    \/ (\E rowIds \in SUBSET RowIds : HookSelectAll(rowIds)) /\ UNCHANGED notHook
    \/ HookRender /\ UNCHANGED notHook

\* The hook mounted with any selection mode, nothing sorted or selected.
InitGridChange ==
    /\ HistoryIdle
    /\ TripIdle
    /\ ViewIdle
    /\ SortIdle
    /\ lastType = "none"
    /\ hookOp = "none"
    /\ lastCalls = <<>>
    /\ awaiting = NoCommit
    /\ \E selectionMode \in Modes :
           /\ state = createInitialGridState(NoSort, {}, selectionMode)
           /\ rState = createInitialGridState(NoSort, {}, selectionMode)

SpecGridChange == InitGridChange /\ [][GridChangeNext]_vars

\* -------------------------------------------- gridReducer on a long history
\* The history n commits leave behind when neighbouring commits differ.
LongHistory(n) ==
    [i \in 1..n |-> [rowId |-> 1 + (i % MaxRows),
                     columnId |-> IF i % 2 = 0 THEN "c1" ELSE "c2",
                     oldValue |-> "v1", newValue |-> "v2"]]

\* Short histories, and the histories at and just below the maximum undo depth.
HistoryLengths == (0..MaxEdits) \cup {MAX_UNDO_HISTORY - 1, MAX_UNDO_HISTORY}

\* The edit states EDIT_START and EDIT_CHANGE produce, and no edit.
EditSessions ==
    {NotEditing} \cup
    {[isEditing |-> TRUE, cell |-> cell, originalValue |-> o, currentValue |-> v,
      isDirty |-> (o # v)] : cell \in Cells, o \in Values, v \in Values}

\* A grid after n commits, some undos and perhaps the start of another edit.
InitCommit ==
    /\ HistoryIdle
    /\ TripIdle
    /\ HookIdle
    /\ ViewIdle
    /\ SortIdle
    /\ lastType = "none"
    /\ \E n \in HistoryLengths, e \in EditSessions :
           \E i \in (-1)..(n - 1) :
               state = [createInitialGridState(NoSort, {}, "multiple")
                           EXCEPT !.edit = e,
                                  !.editHistory = LongHistory(n),
                                  !.historyIndex = i]

\* One EDIT_COMMIT on that grid.
CommitOnce ==
    /\ lastType = "none"
    /\ \E rowId \in RowIds, columnId \in Columns : Dispatch(commitEdit(rowId, columnId))

CommitNext == CommitOnce /\ UNCHANGED notGrid

SpecCommit == InitCommit /\ [][CommitNext]_vars

\* ======================================================= useVirtualizer steps
coreVars == <<historyVars, tripVars, gridVars, hookVars, sortVars>>
notVirt == <<coreVars, colVirtVars, colMgrVars, keyVars, dataGridVars>>

\* The variant of onScroll's setup that requests a frame without cancelling
\* the pending one.
RequestFrameNoCancel(pending, id, newId, newScrollTop) ==
    pending \cup {[id |-> newId, newScrollTop |-> newScrollTop]}

\* cancelAnimationFrame(rafIdRef.current) if it is not null, then
\* requestAnimationFrame of a callback that closes over newScrollTop.
RequestFrame(pending, id, newId, newScrollTop) ==
    {f \in pending : id = 0 \/ f.id # id}
        \cup {[id |-> newId, newScrollTop |-> newScrollTop]}

\* onScroll(event), event.currentTarget.scrollTop = newScrollTop
OnScroll(newScrollTop) ==
    /\ mounted
    /\ virtOp' = VirtStep("onScroll", newScrollTop)
    /\ IF Abs(newScrollTop - lastScrollTopRef) < Px
       THEN UNCHANGED <<vProps, mounted, scrollTop, isScrolling, rVirt,
                        lastScrollTopRef, rafIdRef, frames, scrollTimeoutRef,
                        timers, scrollCount>>
       ELSE /\ scrollCount < MaxScrolls
            /\ scrollCount' = scrollCount + 1
            /\ lastScrollTopRef' = newScrollTop
            /\ IF vProps.enableSmoothScroll
               THEN /\ frames' = RequestFrame(frames, rafIdRef, scrollCount',
                                              newScrollTop)
                    /\ rafIdRef' = scrollCount'
                    /\ UNCHANGED scrollTop
               ELSE /\ scrollTop' = newScrollTop
                    /\ UNCHANGED <<frames, rafIdRef>>
            /\ isScrolling' = IF ~rVirt.isScrolling THEN TRUE ELSE isScrolling
            /\ timers' = {t \in timers : scrollTimeoutRef = 0 \/ t # scrollTimeoutRef}
                             \cup {scrollCount'}
            /\ scrollTimeoutRef' = scrollCount'
            /\ UNCHANGED <<vProps, mounted, rVirt>>

\* The browser runs a requested animation-frame callback.
AnimationFrame ==
    \E f \in frames :
        /\ frames' = frames \ {f}
        /\ scrollTop' = f.newScrollTop
        /\ rafIdRef' = 0
        /\ virtOp' = VirtStep("frame", f.newScrollTop)
        /\ UNCHANGED <<vProps, mounted, isScrolling, rVirt, lastScrollTopRef,
                       scrollTimeoutRef, timers, scrollCount>>

\* A 150 ms timer expires.
ScrollTimeout ==
    \E t \in timers :
        /\ timers' = timers \ {t}
        /\ isScrolling' = FALSE
        /\ virtOp' = VirtStep("timeout", 0)
        /\ UNCHANGED <<vProps, mounted, scrollTop, rVirt, lastScrollTopRef,
                       rafIdRef, frames, scrollTimeoutRef, scrollCount>>

\* React renders the hook after a state change.
VirtRender ==
    /\ mounted
    /\ rVirt # RenderOf(vProps, scrollTop, isScrolling)
    /\ rVirt' = RenderOf(vProps, scrollTop, isScrolling)
    /\ virtOp' = VirtStep("render", 0)
    /\ UNCHANGED <<vProps, mounted, scrollTop, isScrolling, lastScrollTopRef,
                   rafIdRef, frames, scrollTimeoutRef, timers, scrollCount>>

\* The caller renders the hook with another row count.
VirtSetCount(count) ==
    /\ mounted
    /\ count # vProps.count
    /\ vProps' = [vProps EXCEPT !.count = count]
    /\ rVirt' = RenderOf(vProps', scrollTop, isScrolling)
    /\ virtOp' = VirtStep("props", 0)
    /\ UNCHANGED <<mounted, scrollTop, isScrolling, lastScrollTopRef, rafIdRef,
                   frames, scrollTimeoutRef, timers, scrollCount>>

\* The cleanup of the mount effect.
VirtUnmount ==
    /\ mounted
    /\ mounted' = FALSE
    /\ frames' = {f \in frames : rafIdRef = 0 \/ f.id # rafIdRef}
    /\ timers' = {t \in timers : scrollTimeoutRef = 0 \/ t # scrollTimeoutRef}
    /\ virtOp' = VirtStep("unmount", 0)
    /\ UNCHANGED <<vProps, scrollTop, isScrolling, rVirt, lastScrollTopRef,
                   rafIdRef, scrollTimeoutRef, scrollCount>>

\* ---------------------------------------------------- the hook under scroll
ScrollNext ==
    \/ (\E newScrollTop \in 0..MaxOffset : OnScroll(newScrollTop)) /\ UNCHANGED notVirt
    \/ AnimationFrame /\ UNCHANGED notVirt
    \/ ScrollTimeout /\ UNCHANGED notVirt
    \/ VirtRender /\ UNCHANGED notVirt
    \/ (\E count \in 0..MaxCount : VirtSetCount(count)) /\ UNCHANGED notVirt
    \/ VirtUnmount /\ UNCHANGED notVirt

\* One-pixel rows in a two-pixel container, with or without smooth scrolling.
InitScroll ==
    /\ HistoryIdle
    /\ TripIdle
    /\ GridIdle
    /\ HookIdle
    /\ SortIdle
    /\ ColVirtIdle
    /\ ColMgrIdle
    /\ KeyIdle
    /\ DataGridIdle
    /\ \E smooth \in BOOLEAN :
           VirtMounted(VirtProps(MaxCount, 1, 2, 0, smooth))

SpecScroll == InitScroll /\ [][ScrollNext]_vars

\* ------------------------------------------------- the visible range alone
\* Scroll offsets up to one pixel past the tallest content.
WindowOffsets == 0..(Px * (MaxCount * MaxHeight + 1))

\* Any options, and a scrollTop that is waiting for its render.
InitWindow ==
    /\ HistoryIdle
    /\ TripIdle
    /\ GridIdle
    /\ HookIdle
    /\ SortIdle
    /\ ColVirtIdle
    /\ ColMgrIdle
    /\ KeyIdle
    /\ DataGridIdle
    /\ \E count \in 0..MaxCount, itemHeight \in (-1)..MaxHeight,
          containerHeight \in (-1)..(MaxHeight + 1), overscan \in 0..MaxOverscan :
           VirtMounted(VirtProps(count, itemHeight, containerHeight, overscan, TRUE))

\* A frame callback has set scrollTop: the state the next render shows.
WindowScrolled ==
    /\ virtOp.op = "none"
    /\ \E top \in WindowOffsets :
           /\ scrollTop' = top
           /\ virtOp' = VirtStep("frame", top)
    /\ UNCHANGED <<vProps, mounted, isScrolling, rVirt, lastScrollTopRef,
                   rafIdRef, frames, scrollTimeoutRef, timers, scrollCount>>

WindowNext ==
    \/ WindowScrolled /\ UNCHANGED notVirt
    \/ VirtRender /\ UNCHANGED notVirt

SpecWindow == InitWindow /\ [][WindowNext]_vars

\* ================================================ useColumnVirtualizer steps
notColVirt == <<coreVars, virtVars, colMgrVars, keyVars, dataGridVars>>

\* React renders the hook.
ColRender ==
    /\ rCols # ColumnsRenderOf(cvProps, scrollLeft)
    /\ rCols' = ColumnsRenderOf(cvProps, scrollLeft)
    /\ UNCHANGED <<cvProps, scrollLeft>>

\* The column definitions of the model: a scrollable column of declared width
\* 1, one with only a minWidth, a left-pinned one of default width, a
\* right-pinned one with a width and a minWidth, and two hidden ones.
ColumnKinds ==
    {[visible |-> "undefined", pinned |-> "false", width |-> 1, minWidth |-> NoWidth],
     [visible |-> "true", pinned |-> "false", width |-> NoWidth, minWidth |-> 3],
     [visible |-> "true", pinned |-> "left", width |-> NoWidth, minWidth |-> NoWidth],
     [visible |-> "true", pinned |-> "right", width |-> 1, minWidth |-> 3],
     [visible |-> "false", pinned |-> "left", width |-> 1, minWidth |-> NoWidth],
     [visible |-> "false", pinned |-> "false", width |-> 2, minWidth |-> NoWidth]}

\* The column lists of n columns with ids 1..n.
ColumnLists(n) ==
    {[i \in 1..n |-> ColumnDef(i, k[i].visible, k[i].pinned, k[i].width, k[i].minWidth)] :
        k \in [1..n -> ColumnKinds]}

\* Any columns, container width and mode, no width override or one for column
\* 1, and a scrollLeft set by onHorizontalScroll that waits for its render.
InitColumns ==
    /\ HistoryIdle
    /\ TripIdle
    /\ GridIdle
    /\ HookIdle
    /\ SortIdle
    /\ VirtIdle
    /\ ColMgrIdle
    /\ KeyIdle
    /\ DataGridIdle
    /\ \E n \in 0..MaxCols, containerWidth \in 0..MaxWidth, enabled \in BOOLEAN,
          columnWidths \in {<<>>, <<2>>} :
           \E columns \in ColumnLists(n) :
               cvProps = [columns |-> columns, containerWidth |-> containerWidth,
                          defaultColumnWidth |-> DEFAULT_COLUMN_WIDTH,
                          columnWidths |-> columnWidths, enabled |-> enabled]
    /\ scrollLeft \in 0..(MaxWidth + 2)
    /\ rCols = ColumnsNotRendered

ColumnsNext == ColRender /\ UNCHANGED notColVirt

SpecColumns == InitColumns /\ [][ColumnsNext]_vars

\* ==================================================== useColumnManager steps
notColMgr == <<coreVars, virtVars, colVirtVars, keyVars, dataGridVars>>

\* reorderColumns(fromIndex, toIndex)
ReorderColumns(fromIndex, toIndex) ==
    /\ columnStates' = ReorderColumnsResult(columnStates, fromIndex, toIndex)
    /\ UNCHANGED <<draggingColumnId, dragOverColumnId, rMgr>>

\* moveColumn(columnId, toIndex)
MoveColumn(columnId, toIndex) ==
    /\ columnStates' = MoveColumnUpdater(columnStates, columnId, toIndex)
    /\ UNCHANGED <<draggingColumnId, dragOverColumnId, rMgr>>

\* onDragStart(columnId)
OnDragStart(columnId) ==
    /\ draggingColumnId' = columnId
    /\ UNCHANGED <<columnStates, dragOverColumnId, rMgr>>

\* onDragOver(columnId)
OnDragOver(columnId) ==
    /\ dragOverColumnId' = columnId
    /\ UNCHANGED <<columnStates, draggingColumnId, rMgr>>

\* onDragEnd(): source, target and column states are those of the last render;
\* reorderColumns applies its updater to the current column states.
OnDragEnd ==
    /\ LET states == SortByOrder(rMgr.columnStates)
           fromIndex == FindStateIndex(states, rMgr.draggingColumnId)
           toIndex == FindStateIndex(states, rMgr.dragOverColumnId)
       IN  IF /\ rMgr.draggingColumnId # 0
              /\ rMgr.dragOverColumnId # 0
              /\ rMgr.draggingColumnId # rMgr.dragOverColumnId
              /\ fromIndex # -1
              /\ toIndex # -1
           THEN columnStates' = ReorderColumnsResult(columnStates, fromIndex, toIndex)
           ELSE UNCHANGED columnStates
    /\ draggingColumnId' = 0
    /\ dragOverColumnId' = 0
    /\ UNCHANGED rMgr

\* React renders the hook after a state change.
MgrRender ==
    /\ rMgr # MgrView(columnStates, draggingColumnId, dragOverColumnId)
    /\ rMgr' = MgrView(columnStates, draggingColumnId, dragOverColumnId)
    /\ UNCHANGED <<columnStates, draggingColumnId, dragOverColumnId>>

\* setColumnPinned(columnId, pinned)
SetColumnPinned(columnId, pinned) ==
    /\ columnStates' = SetColumnPinnedUpdater(columnStates, columnId, pinned)
    /\ UNCHANGED <<draggingColumnId, dragOverColumnId, rMgr>>

\* resetColumnOrder(): back to the states computed from the column definitions.
ResetColumnOrder ==
    /\ columnStates' = InitialStates(Len(columnStates))
    /\ UNCHANGED <<draggingColumnId, dragOverColumnId, rMgr>>

\* Index arguments: in range, negative, and past the end.
MgrIndexes == (-(MaxCols + 1))..(MaxCols + 1)

\* Column id arguments: the columns, and one id no column has.
MgrIds == 1..(MaxCols + 1)

\* ------------------------------------------------- the column order calls
ColumnOrderNext ==
    \/ (\E f \in MgrIndexes, t \in MgrIndexes : ReorderColumns(f, t))
          /\ UNCHANGED notColMgr
    \/ (\E id \in MgrIds, t \in MgrIndexes : MoveColumn(id, t)) /\ UNCHANGED notColMgr
    \/ (\E id \in MgrIds, pinned \in {"left", "right", "false"} :
            SetColumnPinned(id, pinned)) /\ UNCHANGED notColMgr
    \/ ResetColumnOrder /\ UNCHANGED notColMgr

InitColumnManager ==
    /\ HistoryIdle
    /\ TripIdle
    /\ GridIdle
    /\ HookIdle
    /\ SortIdle
    /\ VirtIdle
    /\ ColVirtIdle
    /\ KeyIdle
    /\ DataGridIdle
    /\ \E n \in 1..MaxCols : ColMgrMounted(n)

SpecColumnOrder == InitColumnManager /\ [][ColumnOrderNext]_vars

\* ------------------------------------------------------ the drag handlers
\* A drag, between reorderColumns calls with indexes in range.
ColumnDragNext ==
    \/ (\E id \in MgrIds : OnDragStart(id)) /\ UNCHANGED notColMgr
    \/ (\E id \in MgrIds : OnDragOver(id)) /\ UNCHANGED notColMgr
    \/ OnDragEnd /\ UNCHANGED notColMgr
    \/ MgrRender /\ UNCHANGED notColMgr
    \/ (\E f \in 0..(Len(columnStates) - 1), t \in 0..(Len(columnStates) - 1) :
            ReorderColumns(f, t)) /\ UNCHANGED notColMgr

SpecColumnDrag == InitColumnManager /\ [][ColumnDragNext]_vars

\* ====================================================== useKeyboardNav steps
notKey == <<coreVars, virtVars, colVirtVars, colMgrVars, dataGridVars>>

\* The grid container's keydown listener runs onKeyDown(event).
OnKeyDown(event) ==
    /\ keyEvent = NoKeyEvent
    /\ keyEvent' = event
    /\ keyCalls' = OnKeyDownCalls(kProps, event)
    /\ UNCHANGED kProps

KeyNames == {KEY_ENTER, KEY_ESCAPE, KEY_TAB, KEY_SPACE, KEY_ARROW_UP,
             KEY_ARROW_DOWN, KEY_ARROW_LEFT, KEY_ARROW_RIGHT, KEY_HOME,
             KEY_END, KEY_PAGE_UP, KEY_PAGE_DOWN, KEY_F2, KEY_A, "x"}

KeyEvents == {KeyEvent(key, shiftKey, ctrlKey, metaKey) :
                 key \in KeyNames, shiftKey \in BOOLEAN,
                 ctrlKey \in BOOLEAN, metaKey \in BOOLEAN}

\* Column definitions with ids 1..n, each visible or hidden.
KeyColumns(n) ==
    {[i \in 1..n |-> [id |-> i, visible |-> shown[i]]] :
        shown \in [1..n -> BOOLEAN]}

\* The active cell the grid hands in: none, or any cell of a grid of MaxRows
\* rows and MaxCols columns (it may lie outside the rows and the visible
\* columns of this render).
KeyActiveCells ==
    {NoActiveCell} \cup
    {ActiveCell(r, c) : r \in 0..(MaxRows - 1), c \in 1..MaxCols}

KeyboardNext ==
    (\E event \in KeyEvents : OnKeyDown(event)) /\ UNCHANGED notKey

InitKeyboard ==
    /\ HistoryIdle
    /\ TripIdle
    /\ GridIdle
    /\ HookIdle
    /\ SortIdle
    /\ VirtIdle
    /\ ColVirtIdle
    /\ ColMgrIdle
    /\ DataGridIdle
    /\ \E rowCount \in 0..MaxRows, n \in 0..MaxCols, isEditing \in BOOLEAN,
          enabled \in BOOLEAN :
          \E columns \in KeyColumns(n), activeCell \in KeyActiveCells :
             KeyMounted(KeyProps(rowCount, columns, activeCell, isEditing,
                                 enabled, MaxRows))

SpecKeyboard == InitKeyboard /\ [][KeyboardNext]_vars

\* ------------------------------------------------- a sequence of key commands
\* The cell the calls leave active: the argument of the last setActiveCell
\* call, or the cell that was active if there was none.
ActiveCellAfter(cell, calls) ==
    LET sets == {i \in 1..Len(calls) : calls[i].fn = "setActiveCell"}
    IN  IF sets = {} THEN cell
        ELSE LET i == CHOOSE j \in sets : \A k \in sets : k <= j
             IN  ActiveCell(calls[i].rowIndex, calls[i].columnId)

\* A key command: onKeyDown(event) runs, setActiveCell stores the cell it is
\* given, and the grid renders again with that cell as activeCell.
KeyCommand(event) ==
    /\ keyEvent' = event
    /\ keyCalls' = OnKeyDownCalls(kProps, event)
    /\ kProps' = [kProps EXCEPT
                     !.activeCell = ActiveCellAfter(kProps.activeCell,
                                                    OnKeyDownCalls(kProps, event))]

\* Keys with and without Shift and Ctrl.
NavEvents == {event \in KeyEvents : ~event.metaKey}

KeyNavNext ==
    (\E event \in NavEvents : KeyCommand(event)) /\ UNCHANGED notKey

\* Navigating, with no cell active yet.
InitKeyNav ==
    /\ HistoryIdle
    /\ TripIdle
    /\ GridIdle
    /\ HookIdle
    /\ SortIdle
    /\ VirtIdle
    /\ ColVirtIdle
    /\ ColMgrIdle
    /\ DataGridIdle
    /\ \E rowCount \in 0..MaxRows, n \in 0..MaxCols :
          \E columns \in KeyColumns(n) :
             KeyMounted(KeyProps(rowCount, columns, NoActiveCell, FALSE, TRUE,
                                 MaxRows))

SpecKeyNav == InitKeyNav /\ [][KeyNavNext]_vars

\* ========================================================== DataGrid steps
notDataGrid == <<coreVars, virtVars, colVirtVars, colMgrVars, keyVars>>

\* The handler runs in the render that shows the current state.
UpToDateGrid == rDataGrid = dataGrid

\* Mouse down on a column's resize handle at clientX.
handleResizeStart(columnId, clientX) ==
    /\ Len(dataGrid.history) < MaxResizes
    /\ dataGrid' = [dataGrid EXCEPT !.resizingColumn = columnId,
                                    !.dragStartX = clientX]
    /\ dataGridOp' = "resizeStart"
    /\ resizeDrag' = [phase |-> "dragging", before |-> Widths(dataGrid.columns),
                      after |-> <<>>, entries |-> Len(dataGrid.history),
                      moves |-> 0, fresh |-> UpToDateGrid]
    /\ UNCHANGED rDataGrid

\* The document's mousemove listener, registered by the effect of the last
\* render if that render saw a column being resized: delta is measured from
\* that render's dragStartX, the width is updated on the pending columns.
handleMouseMove(clientX) ==
    /\ rDataGrid.resizingColumn # 0
    /\ resizeDrag.moves < MaxMoves
    /\ dataGrid' = [dataGrid EXCEPT
                       !.columns = ResizeColumn(dataGrid.columns,
                                                rDataGrid.resizingColumn,
                                                clientX - rDataGrid.dragStartX),
                       !.dragStartX = clientX]
    /\ dataGridOp' = "mouseMove"
    /\ resizeDrag' = [resizeDrag EXCEPT !.moves = @ + 1,
                                        !.fresh = @ /\ UpToDateGrid]
    /\ UNCHANGED rDataGrid

\* The document's mouseup listener of the same effect: it records one entry
\* whose previousColumns and newColumns are both that render's columns, on that
\* render's history, and ends the drag.
handleMouseUp ==
    /\ rDataGrid.resizingColumn # 0
    /\ LET entry == ColumnResizeEntry(rDataGrid.resizingColumn,
                                      rDataGrid.columns, rDataGrid.columns)
           newHistory == addToHistory(rDataGrid.history, rDataGrid.historyIndex,
                                      entry)
       IN  dataGrid' = [dataGrid EXCEPT !.history = newHistory,
                                        !.historyIndex = Len(newHistory) - 1,
                                        !.resizingColumn = 0]
    /\ dataGridOp' = "mouseUp"
    /\ resizeDrag' = IF resizeDrag.phase = "dragging"
                     THEN [resizeDrag EXCEPT !.phase = "done",
                                             !.after = Widths(dataGrid.columns),
                                             !.fresh = @ /\ UpToDateGrid]
                     ELSE resizeDrag
    /\ UNCHANGED rDataGrid

\* The Undo button or Ctrl+Z. (Only columnResize entries are recorded here.)
handleUndo ==
    /\ dataGrid' =
          IF rDataGrid.historyIndex < 0 THEN [dataGrid EXCEPT !.editingCell = 0]
          ELSE [dataGrid EXCEPT
                   !.editingCell = 0,
                   !.columns = rDataGrid.history[rDataGrid.historyIndex + 1]
                                  .previousColumns,
                   !.historyIndex = rDataGrid.historyIndex - 1]
    /\ dataGridOp' = "undo"
    /\ resizeDrag' = IF resizeDrag.phase \in {"done", "redone"}
                     THEN [resizeDrag EXCEPT !.phase = "undone",
                                             !.fresh = @ /\ UpToDateGrid]
                     ELSE NoResizeDrag
    /\ UNCHANGED rDataGrid

\* The Redo button or Ctrl+Shift+Z.
handleRedo ==
    /\ dataGrid' =
          IF rDataGrid.historyIndex >= Len(rDataGrid.history) - 1
          THEN [dataGrid EXCEPT !.editingCell = 0]
          ELSE [dataGrid EXCEPT
                   !.editingCell = 0,
                   !.columns = rDataGrid.history[rDataGrid.historyIndex + 2]
                                  .newColumns,
                   !.historyIndex = rDataGrid.historyIndex + 1]
    /\ dataGridOp' = "redo"
    /\ resizeDrag' = IF resizeDrag.phase = "undone"
                     THEN [resizeDrag EXCEPT !.phase = "redone",
                                             !.fresh = @ /\ UpToDateGrid]
                     ELSE NoResizeDrag
    /\ UNCHANGED rDataGrid

\* React re-renders the component: the handlers are rebuilt and the resize
\* effect re-registers its listeners over the current state.
DataGridRender ==
    /\ rDataGrid # dataGrid
    /\ rDataGrid' = dataGrid
    /\ dataGridOp' = "render"
    /\ UNCHANGED <<dataGrid, resizeDrag>>

\* The pointer positions of the mouse events.
MouseStops == {k * MouseStep : k \in 0..MaxStops}

\* The caller's columns: one with both bounds given, one with neither.
ResizableColumns ==
    <<GridColumn(1, 100, 60, 120), GridColumn(2, 80, 0, 0)>>

DataGridResizeNext ==
    \/ (\E columnId \in 1..Len(dataGrid.columns), clientX \in MouseStops :
            handleResizeStart(columnId, clientX)) /\ UNCHANGED notDataGrid
    \/ (\E clientX \in MouseStops : handleMouseMove(clientX))
          /\ UNCHANGED notDataGrid
    \/ handleMouseUp /\ UNCHANGED notDataGrid
    \/ handleUndo /\ UNCHANGED notDataGrid
    \/ handleRedo /\ UNCHANGED notDataGrid
    \/ DataGridRender /\ UNCHANGED notDataGrid

InitDataGridResize ==
    /\ HistoryIdle
    /\ TripIdle
    /\ GridIdle
    /\ HookIdle
    /\ SortIdle
    /\ VirtIdle
    /\ ColVirtIdle
    /\ ColMgrIdle
    /\ KeyIdle
    /\ DataGridMounted(ResizableColumns)

\* Resize drags, undo and redo on the DataGrid component, with re-renders
\* wherever React puts them.
SpecDataGridResize == InitDataGridResize /\ [][DataGridResizeNext]_vars

\* ------------------------------------------------------------------ claims
\* C1: the cursor the hook shows never points past the live entries:
\* -1 <= historyIndex <= history.length - 1 in every rendered state.
C1_CursorInRange ==
    /\ -1 <= rHistoryIndex
    /\ rHistoryIndex <= Len(rHistory) - 1

\* C2: pushes, then undo() until canUndo is false, then redo() until canRedo is
\* false: every undo made while canUndo is true lowers the cursor and every
\* redo made while canRedo is true raises it (so both loops end), and at the
\* end history and historyIndex are what they were before the first undo.
C2_RoundTrip ==
    /\ (phase = "undoing" /\ UpToDate /\ CanUndo)
          => UndoResult(rHistory, rHistoryIndex).index < rHistoryIndex
    /\ (phase = "redoing" /\ UpToDate /\ CanRedo)
          => RedoResult(rHistory, rHistoryIndex).index > rHistoryIndex
    /\ (phase = "done" /\ UpToDate)
          => (rHistory = snapHistory /\ rHistoryIndex = snapIndex)

\* The first index of the contiguous run of entries around index i that share
\* the batch id of the entry at i, and the last one.
RunFirst(h, i) ==
    CHOOSE s \in 0..i :
        /\ \A j \in s..i : At(h, j).batchId = At(h, i).batchId
        /\ (s = 0 \/ At(h, s - 1).batchId # At(h, i).batchId)

RunLast(h, i) ==
    CHOOSE e \in i..(Len(h) - 1) :
        /\ \A j \in i..e : At(h, j).batchId = At(h, i).batchId
        /\ (e = Len(h) - 1 \/ At(h, e + 1).batchId # At(h, i).batchId)

\* C3: undo() on a batched entry reports the whole contiguous run of its batch
\* id, newest first, and leaves the cursor just before the run; redo() on a
\* batched entry reports the whole run, oldest first, and leaves the cursor on
\* its last entry; on an entry with no batch id each moves one entry.
C3_BatchAtomic ==
    /\ (lastOp = "undo" /\ At(rHistory, rHistoryIndex) # NoEntry) =>
          LET cur == At(rHistory, rHistoryIndex)
              first == IF cur.batchId # 0 THEN RunFirst(rHistory, rHistoryIndex)
                       ELSE rHistoryIndex
          IN  /\ historyIndex = first - 1
              /\ Len(lastReport) = rHistoryIndex - first + 1
              /\ \A k \in 1..Len(lastReport) :
                     lastReport[k] = At(rHistory, rHistoryIndex - (k - 1))
    /\ (lastOp = "redo" /\ At(rHistory, rHistoryIndex + 1) # NoEntry) =>
          LET nxt == At(rHistory, rHistoryIndex + 1)
              last == IF nxt.batchId # 0 THEN RunLast(rHistory, rHistoryIndex + 1)
                      ELSE rHistoryIndex + 1
          IN  /\ historyIndex = last
              /\ Len(lastReport) = last - rHistoryIndex
              /\ \A k \in 1..Len(lastReport) :
                     lastReport[k] = At(rHistory, rHistoryIndex + k)

\* Three pushes in a batch and a fourth outside; the first undo took back the
\* fourth alone, and this second undo has taken back the three of the batch.
C3_Witness ==
    /\ lastOp = "undo"
    /\ Len(rHistory) = 4
    /\ rHistoryIndex = 2
    /\ \A i \in 1..3 : rHistory[i].batchId = 1
    /\ rHistory[4].batchId = 0
    /\ lastReport = <<rHistory[3], rHistory[2], rHistory[1]>>
    /\ historyIndex = -1

IsPush == pushCount' = pushCount + 1

\* C4: after a pushAction the new entry is the last entry, the cursor is on it,
\* and the entries up to the previous cursor are kept in order in front of it
\* (the oldest of them dropped only to stay within the cap).
C4_PushDiscardsRedoTail ==
    [][IsPush =>
        LET kept == Slice(history, 0, historyIndex + 1)
            n == Len(history')
        IN  /\ n >= 1
            /\ history'[n] = NewAction(pushCount', batchIdRef)
            /\ historyIndex' = n - 1
            /\ \E k \in 0..Len(kept) :
                 /\ SubSeq(history', 1, n - 1) = SubSeq(kept, k + 1, Len(kept))
                 /\ (k > 0 => n = maxHistorySize)
    ]_vars

\* C5 as stated: the history never holds more than maxHistorySize entries, and
\* a pushAction on a full history removes the entry at index 0 and keeps the
\* rest in order.
C5_EvictsOldestWhenFull ==
    [][(IsPush /\ Len(history) = maxHistorySize) =>
        /\ history' = Append(Tail(history), NewAction(pushCount', batchIdRef))
        /\ Len(history') <= maxHistorySize
    ]_vars

\* C5 as amended: the history never holds more than maxHistorySize entries, and
\* a pushAction on a full history whose cursor (the historyIndex it closed
\* over) is at or past the last entry removes the entry at index 0 and keeps
\* the rest in order.
C5_BoundedDepth ==
    /\ [](Len(history) <= maxHistorySize /\ Len(rHistory) <= maxHistorySize)
    /\ [][(IsPush /\ Len(history) = maxHistorySize
                  /\ rHistoryIndex >= Len(history) - 1) =>
            history' = Append(Tail(history), NewAction(pushCount', batchIdRef))
       ]_vars

\* A push that found the history full has evicted: the entries are the last
\* maxHistorySize actions pushed.
C5_Witness ==
    /\ lastOp = "push"
    /\ maxHistorySize >= 2
    /\ pushCount > maxHistorySize
    /\ Len(history) = maxHistorySize
    /\ \A i \in 1..Len(history) : history[i].id = pushCount - maxHistorySize + i

\* C6: a pushed entry carries the id the most recent startBatch returned when
\* no endBatch followed it, and no batch id otherwise; a startBatch inside an
\* open batch replaces the id, one endBatch closes batching.
C6_BatchesDoNotNest ==
    /\ lastOp = "push" =>
          /\ Len(history) >= 1
          /\ history[Len(history)].batchId = (IF batchOpen THEN lastStartBatch ELSE 0)
    /\ lastOp = "startBatch" => (batchOpen /\ lastStartBatch = batchCount)
    /\ batchOpen => lastStartBatch # 0

\* A push after a second startBatch that found the first batch open.
C6_Witness ==
    /\ lastOp = "push"
    /\ batchOpen
    /\ batchReplaced
    /\ lastStartBatch = 2
    /\ history[Len(history)].batchId = 2

\* C7: selectedRowIds is empty under mode 'none' and holds at most one id
\* under mode 'single', in every state from createInitialGridState on.
C7_SelectionInvariants ==
    /\ state.selection.mode = "none" => state.selection.selectedRowIds = {}
    /\ state.selection.mode = "single" =>
           Cardinality(state.selection.selectedRowIds) <= 1

\* C8: SELECT_ROW(rowId, multi) changes nothing under mode 'none'; under mode
\* 'single', or with multi false, it makes selectedRowIds {rowId}; otherwise
\* it toggles rowId in selectedRowIds; it changes nothing else.
C8_SelectRow ==
    \A rowId \in RowIds, multi \in BOOLEAN :
        LET next == gridReducer(state, selectRow(rowId, multi))
            mode == state.selection.mode
            old == state.selection.selectedRowIds
            new == next.selection.selectedRowIds
        IN  /\ mode = "none" => next = state
            /\ [next EXCEPT !.selection.selectedRowIds = old] = state
            /\ (mode # "none" /\ (mode = "single" \/ ~multi)) => new = {rowId}
            /\ (mode \notin {"none", "single"} /\ multi) =>
                   /\ (rowId \in new) <=> (rowId \notin old)
                   /\ \A r \in RowIds \ {rowId} : (r \in new) <=> (r \in old)

\* A SELECT_ROW with multi has added a second row to the selection.
C8_Witness ==
    /\ lastType = "SELECT_ROW"
    /\ state.selection.mode = "multiple"
    /\ Cardinality(state.selection.selectedRowIds) = 2

\* C9: SELECT_ALL and DESELECT_ALL change nothing unless the mode is
\* 'multiple'; under 'multiple' DESELECT_ALL empties selectedRowIds and
\* selectedCells and clears selectionRange.
C9_SelectAllOnlyMultiple ==
    /\ state.selection.mode # "multiple" =>
           /\ \A rowIds \in SUBSET RowIds :
                  gridReducer(state, selectAll(rowIds)) = state
           /\ gridReducer(state, deselectAll) = state
    /\ state.selection.mode = "multiple" =>
           LET next == gridReducer(state, deselectAll)
           IN  /\ next.selection.selectedRowIds = {}
               /\ next.selection.selectedCells = {}
               /\ next.selection.selectionRange = NoRange

\* C10: EDIT_START on a cell other than the one being edited leaves the edit
\* state as it is; an EDIT_START that is accepted sets originalValue and
\* currentValue to the value and isDirty to false.
C10_EditStartRejected ==
    \A cell \in Cells, value \in Values :
        LET next == gridReducer(state, startEdit(cell, value))
            conflict == state.edit.isEditing /\ state.edit.cell # NoCell
                        /\ state.edit.cell # cell
        IN  /\ conflict => next.edit = state.edit
            /\ ~conflict => next.edit = [isEditing |-> TRUE, cell |-> cell,
                                         originalValue |-> value,
                                         currentValue |-> value, isDirty |-> FALSE]

\* C11: EDIT_COMMIT(rowId, columnId) with no active edit changes nothing; with
\* an active edit it keeps the entries up to the cursor (the oldest dropped
\* only to stay within MAX_UNDO_HISTORY), appends the one entry (rowId,
\* columnId, originalValue, currentValue), puts the cursor on it, resets the
\* edit state, and changes nothing else.
C11_EditCommit ==
    \A rowId \in RowIds, columnId \in Columns :
        LET next == gridReducer(state, commitEdit(rowId, columnId))
            active == state.edit.isEditing /\ state.edit.cell # NoCell
            kept == SubSeq(state.editHistory, 1, state.historyIndex + 1)
            entry == [rowId |-> rowId, columnId |-> columnId,
                      oldValue |-> state.edit.originalValue,
                      newValue |-> state.edit.currentValue]
            n == Len(next.editHistory)
        IN  /\ ~active => next = state
            /\ active =>
                  /\ next.edit = NotEditing
                  /\ n >= 1
                  /\ n <= MAX_UNDO_HISTORY
                  /\ next.editHistory[n] = entry
                  /\ next.historyIndex = n - 1
                  /\ \E k \in 0..Len(kept) :
                        /\ SubSeq(next.editHistory, 1, n - 1) =
                               SubSeq(kept, k + 1, Len(kept))
                        /\ (k > 0 => n = MAX_UNDO_HISTORY)
                  /\ [next EXCEPT !.edit = state.edit,
                                  !.editHistory = state.editHistory,
                                  !.historyIndex = state.historyIndex] = state

\* A commit on a full history with the cursor on its last entry: the oldest
\* entry is gone and the history is still MAX_UNDO_HISTORY long.
C11_Witness ==
    /\ lastType = "EDIT_COMMIT"
    /\ state.edit = NotEditing
    /\ Len(state.editHistory) = MAX_UNDO_HISTORY
    /\ state.historyIndex = MAX_UNDO_HISTORY - 1
    /\ state.editHistory[1] = LongHistory(MAX_UNDO_HISTORY)[2]

\* The step is the dispatch of a sort action.
IsSortStep == lastType' \in {"SORT_SET", "SORT_TOGGLE", "SORT_CLEAR"}

\* The coordinate is cleared, or names the row it named before the step.
CellTranslated(before, after) ==
    \/ after = NoCell
    \/ /\ before # NoCell
       /\ after.columnId = before.columnId
       /\ RowIdAt(data, state'.sort, after.rowIndex) =
              RowIdAt(data, state.sort, before.rowIndex)

\* C12: a sort action that changes the order of the rows ends any edit session
\* and leaves activeCell, selectedCells and selectionRange cleared or naming
\* the rows they named before, at the rows' new indices.
C12_NoStaleCoordinate ==
    [][(IsSortStep /\ ViewRows(data, state'.sort) # ViewRows(data, state.sort)) =>
        /\ ~state'.edit.isEditing
        /\ CellTranslated(state.selection.activeCell, state'.selection.activeCell)
        /\ \/ state'.selection.selectedCells = {}
           \/ {<<RowIdAt(data, state'.sort, k[1]), k[2]>> :
                   k \in state'.selection.selectedCells} =
              {<<RowIdAt(data, state.sort, k[1]), k[2]>> :
                   k \in state.selection.selectedCells}
        /\ \/ state'.selection.selectionRange = NoRange
           \/ /\ CellTranslated(state.selection.selectionRange.start,
                                 state'.selection.selectionRange.start)
              /\ CellTranslated(state.selection.selectionRange.end,
                                 state'.selection.selectionRange.end)
    ]_vars

\* C13: undo() with an entry at the cursor invokes onCellChange once, with
\* (rowId, columnId, oldValue, newValue) of that entry, and moves the cursor
\* back by one; redo() with an entry after the cursor invokes onCellChange
\* once, with (rowId, columnId, newValue, oldValue) of that entry, and moves
\* the cursor forward by one; with nothing to undo or redo they invoke nothing
\* and change nothing.
C13_UndoRedoCallbacks ==
    [][/\ hookOp' = "undo" =>
            IF state.historyIndex >= 0
            THEN LET edit == EditAt(state.editHistory, state.historyIndex)
                 IN  /\ lastCalls' = <<CellChange(edit.rowId, edit.columnId,
                                                  edit.oldValue, edit.newValue)>>
                     /\ state'.historyIndex = state.historyIndex - 1
            ELSE lastCalls' = <<>> /\ state' = state
       /\ hookOp' = "redo" =>
            IF state.historyIndex < Len(state.editHistory) - 1
            THEN LET edit == EditAt(state.editHistory, state.historyIndex + 1)
                 IN  /\ lastCalls' = <<CellChange(edit.rowId, edit.columnId,
                                                  edit.newValue, edit.oldValue)>>
                     /\ state'.historyIndex = state.historyIndex + 1
            ELSE lastCalls' = <<>> /\ state' = state
    ]_vars

\* C14: commitEdit invokes onCellChange and clears the edit state in the same
\* call, without waiting for the callback to complete.
C14_CommitDoesNotBlock ==
    [][(~awaiting.active /\ awaiting'.active) =>
          /\ Len(lastCalls') = 1
          /\ ~state'.edit.isEditing
    ]_vars

\* C15: no two sort items share a columnId, and the item at position i has
\* priority i.
C15_SortListInvariant ==
    /\ \A i \in 1..Len(sorts), j \in 1..Len(sorts) :
           i # j => sorts[i].columnId # sorts[j].columnId
    /\ \A i \in 1..Len(sorts) : sorts[i].priority = i - 1

Ids(rows) == [i \in 1..Len(rows) |-> rows[i].id]

\* toggleSort on the one-column list a first toggle of c1 leaves behind.
FirstToggle == ToggleSortUpdater(<<>>, "c1", "c1", ColumnType("c1"), FALSE, maxSorts)
SecondToggle == ToggleSortUpdater(FirstToggle, "c1", "c1", ColumnType("c1"), FALSE, maxSorts)
ThirdToggle == ToggleSortUpdater(SecondToggle, "c1", "c1", ColumnType("c1"), FALSE, maxSorts)

\* C17: toggleSort on a column that is absent adds it ascending (and, when not
\* additive, makes it the only item); on an ascending column it makes it
\* descending in place; on a descending column it removes it. From no sort,
\* three toggles of one column give ascending, descending and no sort, and
\* sortData then gives Ann, Bob, Cid, then Cid, Bob, Ann, then the rows in
\* input order. SORT_TOGGLE cycles state.sort the same way.
C17_ToggleCycle ==
    /\ \A columnId \in SortColumns, additive \in BOOLEAN :
          LET next == ToggleSortUpdater(sorts, columnId, columnId,
                                        ColumnType(columnId), additive, maxSorts)
              at == FindIndex(sorts, columnId)
              after == FindIndex(next, columnId)
          IN  /\ at = -1 => (after # -1 /\ next[after + 1].direction = "asc")
              /\ (at = -1 /\ ~additive) =>
                     next = <<SortItem(columnId, columnId, ColumnType(columnId),
                                       "asc", 0)>>
              /\ (at # -1 /\ sorts[at + 1].direction = "asc") =>
                     /\ Len(next) = Len(sorts)
                     /\ next[at + 1] = [sorts[at + 1] EXCEPT !.direction = "desc"]
                     /\ \A i \in 1..Len(sorts) : i # at + 1 => next[i] = sorts[i]
              /\ (at # -1 /\ sorts[at + 1].direction = "desc") => after = -1
    /\ sorts = <<>> => SortData(data, sorts) = data
    /\ Ids(SortData(data, FirstToggle)) = <<2, 1, 3>>
    /\ Ids(SortData(data, SecondToggle)) = <<3, 1, 2>>
    /\ ThirdToggle = <<>>
    /\ SortData(data, ThirdToggle) = data
    /\ \A columnId \in Columns :
          LET next == gridReducer(state, toggleSort(columnId))
          IN  /\ state.sort.columnId # columnId =>
                     next.sort = [columnId |-> columnId, direction |-> "asc"]
              /\ state.sort = [columnId |-> columnId, direction |-> "asc"] =>
                     next.sort = [columnId |-> columnId, direction |-> "desc"]
              /\ state.sort = [columnId |-> columnId, direction |-> "desc"] =>
                     next.sort = NoSort
              /\ [next EXCEPT !.sort = state.sort] = state

\* sortData gave Cid, Bob, Ann under the descending sort, and the toggle after
\* it has emptied the list.
C17_Witness ==
    /\ sortOp = "toggleSort"
    /\ sorts = <<>>
    /\ sorted.called
    /\ Ids(sorted.rows) = <<3, 1, 2>>

\* What the comparator of sort item k says about rows a and b.
ItemCompare(k, a, b) ==
    createComparator(sorts[k].dataType, sorts[k].direction,
                     Field(a, sorts[k].accessorKey), Field(b, sorts[k].accessorKey))

\* C18: sortData returns the rows it was given, ordered so that of two rows
\* the first sort item that tells them apart puts the earlier one first, and
\* two rows no sort item tells apart stay in input order.
C18_PriorityOrderStable ==
    sorted.called =>
        LET out == sorted.rows
        IN  /\ Len(out) = Len(data)
            /\ {out[i] : i \in 1..Len(out)} = {data[i] : i \in 1..Len(data)}
            /\ \A i \in 1..Len(out), j \in 1..Len(out) :
                  i < j =>
                     \/ \E k \in 1..Len(sorts) :
                           /\ ItemCompare(k, out[i], out[j]) < 0
                           /\ \A m \in 1..(k - 1) : ItemCompare(m, out[i], out[j]) = 0
                     \/ /\ \A k \in 1..Len(sorts) : ItemCompare(k, out[i], out[j]) = 0
                        /\ out[i].id < out[j].id

\* Three rows under a two-item sort: the second item has decided between two
\* rows the first item ties, a third row ties one of them on both items, and
\* the rows came back in another order.
C18_Witness ==
    /\ sorted.called
    /\ Len(sorts) = 2
    /\ Len(data) = 3
    /\ sorted.rows # data
    /\ \E i \in 1..3, j \in 1..3 :
          /\ i < j
          /\ ItemCompare(1, sorted.rows[i], sorted.rows[j]) = 0
          /\ ItemCompare(2, sorted.rows[i], sorted.rows[j]) < 0
    /\ \E i \in 1..3, j \in 1..3 :
          /\ i < j
          /\ ItemCompare(1, sorted.rows[i], sorted.rows[j]) = 0
          /\ ItemCompare(2, sorted.rows[i], sorted.rows[j]) = 0

\* C19: sorting the rows sortData returned once more, under the same sort
\* list, returns them unchanged.
C19_Idempotent ==
    sorted.called => SortData(sorted.rows, sorts) = sorted.rows

\* Rows with null, undefined and a string that is no number, sorted by the
\* numeric reading of c1 into another order.
C19_Witness ==
    /\ sorted.called
    /\ Len(sorts) >= 1
    /\ sorts[1].columnId = "c1"
    /\ colType = "number"
    /\ sorted.rows # data
    /\ {JsNull, JsUndefined, Str("a")} \subseteq {data[i].c1 : i \in 1..Len(data)}

\* C20: under a single sort item, no row whose key is null or undefined comes
\* before a row whose key is defined, whatever the data type and direction;
\* among the rows with defined keys the ascending comparator never decreases
\* under 'asc' and never increases under 'desc'.
C20_NullsLast ==
    (sorted.called /\ Len(sorts) = 1) =>
        LET out == sorted.rows
            key(r) == Field(r, sorts[1].accessorKey)
        IN  \A i \in 1..Len(out), j \in 1..Len(out) :
               i < j =>
                  /\ IsNullish(key(out[i])) => IsNullish(key(out[j]))
                  /\ (~IsNullish(key(out[i])) /\ ~IsNullish(key(out[j]))) =>
                        LET asc == createComparator(sorts[1].dataType, "asc",
                                                    key(out[i]), key(out[j]))
                        IN  IF sorts[1].direction = "desc" THEN asc >= 0 ELSE asc <= 0

\* A descending sort moved a null key from the front to the end, behind two
\* defined keys that it put in descending order.
C20_Witness ==
    /\ sorted.called
    /\ Len(sorts) = 1
    /\ sorts[1].columnId = "c1"
    /\ sorts[1].direction = "desc"
    /\ Len(data) = 3
    /\ IsNullish(data[1].c1)
    /\ sorted.rows[3] = data[1]
    /\ createComparator(colType, "asc", sorted.rows[1].c1, sorted.rows[2].c1) > 0

\* The number compareNumbers reads from a value, and the time compareDates
\* reads from it.
NumberOf(v) == IF v.t = "number" THEN Finite(v.n) ELSE ParseFloat(JsString(v))
TimeOf(v) == IF v.t = "number" THEN Finite(v.n) ELSE DateParse(JsString(v))

\* A defined key that the data type of a sort item cannot parse.
Unparsable(dataType, v) ==
    /\ ~IsNullish(v)
    /\ \/ dataType = "number" /\ NumberOf(v).nan
       \/ dataType = "date" /\ TimeOf(v).nan

\* C21: under a single number-typed or date-typed sort item, ascending or
\* descending, no row whose key does not parse comes before a row whose key
\* parses.
C21_UnparsableLast ==
    (sorted.called /\ Len(sorts) = 1 /\ sorts[1].dataType \in {"number", "date"}) =>
        LET out == sorted.rows
            key(r) == Field(r, sorts[1].accessorKey)
        IN  \A i \in 1..Len(out), j \in 1..Len(out) :
               (i < j /\ ~IsNullish(key(out[j]))) =>
                  (Unparsable(sorts[1].dataType, key(out[i])) =>
                      Unparsable(sorts[1].dataType, key(out[j])))

\* The rendered window, and the options it was computed from.
Window == rVirt.window
WindowSize == Len(Window.virtualItems)
RawVisibleCount == CeilDiv(vProps.containerHeight, vProps.itemHeight)

\* The original statement of C22: the window holds at most
\* ceil(containerHeight / itemHeight) + 2 * overscan rows.
C22_WindowSize ==
    (vProps.itemHeight > 0 /\ vProps.containerHeight >= 0) =>
        WindowSize <= RawVisibleCount + 2 * vProps.overscan

\* C22: for count >= 0, itemHeight > 0, containerHeight >= 0, overscan >= 0
\* and scrollTop >= 0 the window holds at most
\* ceil(containerHeight / itemHeight) + 2 * overscan + 1 rows, and if it is
\* not empty it holds endIndex - startIndex + 1 rows.
C22_WindowSizePlusOne ==
    (vProps.itemHeight > 0 /\ vProps.containerHeight >= 0) =>
        /\ WindowSize <= RawVisibleCount + 2 * vProps.overscan + 1
        /\ WindowSize > 0 => WindowSize = Window.endIndex - Window.startIndex + 1

\* Scrolled down with an overscan and neither end clamped, the window holds
\* one row more than the visible count and twice the overscan.
C22_Witness ==
    /\ virtOp.op = "render"
    /\ vProps.itemHeight > 0
    /\ vProps.overscan >= 1
    /\ rVirt.scrollTop > 0
    /\ WindowSize = RawVisibleCount + 2 * vProps.overscan + 1

\* C23: for count > 0, itemHeight > 0, containerHeight > 0 and any scrollTop
\* >= 0, startIndex, endIndex and the index of every virtual item lie in
\* [0, count); for count = 0 or a non-positive height the window is empty.
C23_IndexRange ==
    IF vProps.count > 0 /\ vProps.itemHeight > 0 /\ vProps.containerHeight > 0
    THEN /\ Window.startIndex \in 0..(vProps.count - 1)
         /\ Window.endIndex \in 0..(vProps.count - 1)
         /\ \A k \in 1..WindowSize :
                Window.virtualItems[k].index \in 0..(vProps.count - 1)
    ELSE Window.virtualItems = <<>>

\* The step is an onScroll call whose offset is less than one pixel from the
\* offset accepted last.
SubPixelScroll ==
    /\ virtOp'.op = "onScroll"
    /\ Abs(virtOp'.offset - lastScrollTopRef) < Px

\* C24: with smooth scrolling enabled at most one animation-frame callback is
\* pending; the frame that runs sets scrollTop to the offset accepted last;
\* and a scroll event less than one pixel from the offset accepted last
\* schedules nothing and changes nothing.
C24_ScrollCoalescing ==
    [][vProps.enableSmoothScroll =>
          /\ Cardinality(frames') <= 1
          /\ virtOp'.op = "frame" => scrollTop' = lastScrollTopRef
          /\ SubPixelScroll =>
                 UNCHANGED <<scrollTop, isScrolling, rVirt, lastScrollTopRef,
                             rafIdRef, frames, scrollTimeoutRef, timers>>]_vars

\* A second scroll event was accepted before the frame of the first had run:
\* scrollTop is still 0 and the one pending frame holds the second offset.
C24_Witness ==
    /\ vProps.enableSmoothScroll
    /\ virtOp.op = "onScroll"
    /\ scrollCount = 2
    /\ scrollTop = 0
    /\ frames = {[id |-> 2, newScrollTop |-> lastScrollTopRef]}

\* The step is an onScroll call that was accepted.
AcceptedScroll ==
    /\ virtOp'.op = "onScroll"
    /\ Abs(virtOp'.offset - lastScrollTopRef) >= Px

\* C25: every accepted scroll event leaves isScrolling true and leaves
\* exactly one 150 ms timer pending, the one it has just set; the flag turns
\* false only when a timer expires.
C25_ScrollingFlag ==
    [][/\ AcceptedScroll =>
             /\ isScrolling'
             /\ timers' = {scrollTimeoutRef'}
             /\ scrollTimeoutRef' # scrollTimeoutRef
       /\ (isScrolling /\ ~isScrolling') => virtOp'.op = "timeout"]_vars

\* How often a band holds the column.
TimesIn(band, column) ==
    Cardinality({k \in 1..Len(band) : band[k].column = column})

\* The band keeps the order of the input column list (ids are positions).
InInputOrder(band) ==
    \A i \in 1..Len(band), j \in 1..Len(band) :
        i < j => band[i].column.id < band[j].column.id

\* C26: every visible column is in exactly one band, the one its pinned
\* property names, once; a hidden column is in no band; each band keeps the
\* relative order of the input column list.
C26_ColumnBands ==
    rCols.rendered =>
        LET b == rCols.bands
        IN  /\ \A i \in 1..Len(cvProps.columns) :
                  LET c == cvProps.columns[i]
                      l == TimesIn(b.pinnedLeft, c)
                      r == TimesIn(b.pinnedRight, c)
                      m == TimesIn(b.scrollable, c)
                  IN  IF c.visible = "false" THEN l = 0 /\ r = 0 /\ m = 0
                      ELSE IF c.pinned = "left" THEN l = 1 /\ r = 0 /\ m = 0
                      ELSE IF c.pinned = "right" THEN l = 0 /\ r = 1 /\ m = 0
                      ELSE l = 0 /\ r = 0 /\ m = 1
            /\ InInputOrder(b.pinnedLeft)
            /\ InInputOrder(b.pinnedRight)
            /\ InInputOrder(b.scrollable)

\* A hidden column between two scrollable ones: the band holds the two, in
\* input order.
C26_Witness ==
    /\ rCols.rendered
    /\ Len(cvProps.columns) = 3
    /\ cvProps.columns[2].visible = "false"
    /\ Len(rCols.bands.scrollable) = 2
    /\ rCols.bands.scrollable[1].column.id = 1
    /\ rCols.bands.scrollable[2].column.id = 3

\* What the hook renders for the same options with virtualization disabled.
Unwindowed ==
    VisibleScrollable(FALSE, rCols.bands, cvProps.containerWidth, scrollLeft)

\* C27: with virtualization disabled the result holds every scrollable column
\* once and in order, each after the pinned-left width and the widths of the
\* scrollable columns before it; with virtualization enabled every column of
\* the window has the index, offsetLeft and width it has when disabled.
C27_DisabledMatchesWindowed ==
    rCols.rendered =>
        IF ~cvProps.enabled
        THEN /\ Len(rCols.visibleColumns) = Len(rCols.bands.scrollable)
             /\ \A k \in 1..Len(rCols.visibleColumns) :
                    /\ rCols.visibleColumns[k].column = rCols.bands.scrollable[k].column
                    /\ rCols.visibleColumns[k].width = rCols.bands.scrollable[k].width
                    /\ rCols.visibleColumns[k].offsetLeft =
                           rCols.bands.pinnedLeftWidth
                              + SumWidths(SubSeq(rCols.bands.scrollable, 1, k - 1))
        ELSE \A k \in 1..Len(rCols.visibleColumns) :
                \E m \in 1..Len(Unwindowed) :
                    Unwindowed[m] = rCols.visibleColumns[k]

\* A window that starts after the first scrollable column, at an offset
\* greater than 0.
C27_Witness ==
    /\ rCols.rendered
    /\ cvProps.enabled
    /\ Len(rCols.visibleColumns) >= 1
    /\ rCols.visibleColumns[1].offsetLeft > 0
    /\ rCols.visibleColumns[1].column # rCols.bands.scrollable[1].column

\* The column ids in display order.
ColumnOrder(states) ==
    LET sortedStates == SortByOrder(states)
    IN  [i \in 1..Len(sortedStates) |-> sortedStates[i].id]

\* The ids are those of the columns and the order values are 0..n-1.
DenseOrder(states) ==
    /\ {states[i].id : i \in 1..Len(states)} = 1..Len(states)
    /\ {states[i].order : i \in 1..Len(states)} = 0..(Len(states) - 1)

\* An order with one column taken out.
OrderWithout(order, columnId) ==
    LET Other(id) == id # columnId
    IN  SelectSeq(order, Other)

\* What the claim says of a step that moves the column at fromIndex to toIndex.
MovedAsClaimed(fromIndex, toIndex) ==
    LET n == Len(columnStates)
        before == ColumnOrder(columnStates)
        after == ColumnOrder(columnStates')
    IN  /\ (fromIndex \in 0..(n - 1) /\ toIndex \in 0..(n - 1)) =>
              /\ after[toIndex + 1] = before[fromIndex + 1]
              /\ OrderWithout(after, before[fromIndex + 1])
                    = OrderWithout(before, before[fromIndex + 1])
        /\ fromIndex \notin 0..(n - 1) => columnStates' = columnStates

\* C28: reorderColumns and moveColumn keep the set of column ids and leave
\* order values that are a permutation of 0..n-1; with both indexes in range
\* the moved column ends at toIndex and the others keep their relative order;
\* a source index or a column id that does not exist leaves the state unchanged.
C28_ColumnOrder ==
    [][/\ DenseOrder(columnStates')
       /\ \A f \in MgrIndexes, t \in MgrIndexes :
              ReorderColumns(f, t) => MovedAsClaimed(f, t)
       /\ \A id \in MgrIds, t \in MgrIndexes :
              MoveColumn(id, t) =>
                  MovedAsClaimed(FindStateIndex(SortByOrder(columnStates), id), t)]_vars

\* The drag source and the drag target are two columns of the grid.
DragSet ==
    /\ draggingColumnId # 0
    /\ dragOverColumnId # 0
    /\ draggingColumnId # dragOverColumnId
    /\ FindStateIndex(columnStates, draggingColumnId) # -1
    /\ FindStateIndex(columnStates, dragOverColumnId) # -1

\* The source column has moved to the place the target column had.
DragCommitted ==
    LET before == ColumnOrder(columnStates)
        after == ColumnOrder(columnStates')
        toIndex == FindStateIndex(SortByOrder(columnStates), dragOverColumnId)
    IN  /\ after[toIndex + 1] = draggingColumnId
        /\ OrderWithout(after, draggingColumnId) = OrderWithout(before, draggingColumnId)

\* C29: onDragStart and onDragOver leave the column order alone; onDragEnd
\* moves the source column to the target column's position if source and
\* target are set and differ, leaves the order alone otherwise, and in every
\* case resets source and target to null.
C29_DragPhases ==
    [][/\ \A id \in MgrIds :
              (OnDragStart(id) \/ OnDragOver(id)) => columnStates' = columnStates
       /\ OnDragEnd =>
              /\ IF DragSet THEN DragCommitted ELSE columnStates' = columnStates
              /\ draggingColumnId' = 0
              /\ dragOverColumnId' = 0]_vars

\* The active cell is a cell of the grid as rendered: one of its rows, in one
\* of its visible columns.
ActiveInGrid ==
    /\ kProps.activeCell # NoActiveCell
    /\ kProps.activeCell.rowIndex \in 0..(kProps.rowCount - 1)
    /\ getColumnIndex(kProps, kProps.activeCell.columnId) # -1

\* The calls that commit the edit and then make the given cell the active one.
CommitAndMoveTo(rowIndex, colIndex) ==
    <<CallPreventDefault, CallOnCommitEdit,
      CallSetActiveCell(rowIndex, getColumnIdAtIndex(kProps, colIndex)),
      CallScrollToIndex(rowIndex)>>

\* C30: while isEditing is true, onKeyDown reacts to three keys only.  Escape
\* cancels the edit.  Enter commits it and moves the active cell down one row
\* (it stays on the last row).  Tab commits and moves one column right,
\* Shift+Tab one column left, wrapping to the start of the next row and to the
\* end of the previous row (staying put at the last and the first cell).  Any
\* other key makes no call at all: no callback, no setActiveCell and no
\* preventDefault.
C30_EditingGate ==
    (kProps.enabled /\ kProps.isEditing /\ keyEvent # NoKeyEvent) =>
        LET cell == kProps.activeCell
            col == getColumnIndex(kProps, cell.columnId)
            lastRow == kProps.rowCount - 1
            lastCol == columnCount(kProps) - 1
        IN  /\ keyEvent.key \notin {KEY_ESCAPE, KEY_ENTER, KEY_TAB}
                => keyCalls = <<>>
            /\ keyEvent.key = KEY_ESCAPE
                => keyCalls = <<CallPreventDefault, CallOnCancelEdit>>
            /\ keyEvent.key \in {KEY_ENTER, KEY_TAB}
                => /\ Len(keyCalls) >= 2
                   /\ SubSeq(keyCalls, 1, 2) = <<CallPreventDefault, CallOnCommitEdit>>
                   /\ \A i \in 3..Len(keyCalls) :
                         keyCalls[i].fn \in {"setActiveCell", "scrollToIndex"}
            /\ (keyEvent.key = KEY_ENTER /\ ActiveInGrid)
                => keyCalls = CommitAndMoveTo(Min(cell.rowIndex + 1, lastRow),
                                              col)
            /\ (keyEvent.key = KEY_TAB /\ ~keyEvent.shiftKey /\ ActiveInGrid)
                => keyCalls =
                      IF col < lastCol
                      THEN CommitAndMoveTo(cell.rowIndex, col + 1)
                      ELSE IF cell.rowIndex < lastRow
                      THEN CommitAndMoveTo(cell.rowIndex + 1, 0)
                      ELSE CommitAndMoveTo(cell.rowIndex, col)
            /\ (keyEvent.key = KEY_TAB /\ keyEvent.shiftKey /\ ActiveInGrid)
                => keyCalls =
                      IF col > 0
                      THEN CommitAndMoveTo(cell.rowIndex, col - 1)
                      ELSE IF cell.rowIndex > 0
                      THEN CommitAndMoveTo(cell.rowIndex - 1, lastCol)
                      ELSE CommitAndMoveTo(cell.rowIndex, col)

\* A key of the navigation switch pressed while editing, on a cell from which
\* it would have moved had the edit not been open.
C30_Witness ==
    /\ kProps.enabled
    /\ kProps.isEditing
    /\ ActiveInGrid
    /\ kProps.rowCount > 1
    /\ kProps.activeCell.rowIndex = 0
    /\ keyEvent.key = KEY_ARROW_DOWN
    /\ keyCalls = <<>>

\* The cell is one of the grid's cells: a row below rowCount and a visible
\* column.
CellInGrid(props, cell) ==
    /\ cell.rowIndex \in 0..(props.rowCount - 1)
    /\ getColumnIndex(props, cell.columnId) # -1

\* C31: after any sequence of key commands the active cell is null or a cell
\* of the grid: 0 <= rowIndex < rowCount, in a visible column, for every
\* rowCount (0 included) and every column set (none visible included).
C31_ActiveCellInGrid ==
    \/ kProps.activeCell = NoActiveCell
    \/ CellInGrid(kProps, kProps.activeCell)

\* The calls of a navigation key that makes the given cell the active one.
MoveTo(rowIndex, colIndex) ==
    <<CallPreventDefault,
      CallSetActiveCell(rowIndex, visibleColumns(kProps)[colIndex + 1].id),
      CallScrollToIndex(rowIndex)>>

\* Tab or Shift+Tab pressed while navigating, the active cell being a cell of
\* the grid.
TabWhileNavigating ==
    /\ kProps.enabled
    /\ ~kProps.isEditing
    /\ keyEvent.key = KEY_TAB
    /\ ActiveInGrid

\* C32: while navigating, Tab on the last visible column of a row that is not
\* the last moves to the first visible column of the next row; Shift+Tab on
\* the first visible column of a row that is not the first moves to the last
\* visible column of the previous row; elsewhere Tab moves one column right
\* and Shift+Tab one column left in the same row; at the last cell of the
\* grid Tab, and at the first cell Shift+Tab, leaves the active cell in the
\* grid.  Both useKeyboardNav's onKeyDown and the DataGrid component's
\* handleKeyDown, given the same cell, do so.
C32_TabWrap ==
    TabWhileNavigating =>
        LET cell == kProps.activeCell
            col == getColumnIndex(kProps, cell.columnId)
            lastRow == kProps.rowCount - 1
            lastCol == columnCount(kProps) - 1
            after == ActiveCellAfter(cell, keyCalls)
            focused == TabFocus([row |-> cell.rowIndex, col |-> col],
                                columnCount(kProps), kProps.rowCount,
                                keyEvent.shiftKey)
        IN  /\ (~keyEvent.shiftKey /\ col = lastCol /\ cell.rowIndex < lastRow)
                => /\ keyCalls = MoveTo(cell.rowIndex + 1, 0)
                   /\ focused = [row |-> cell.rowIndex + 1, col |-> 0]
            /\ (keyEvent.shiftKey /\ col = 0 /\ cell.rowIndex > 0)
                => /\ keyCalls = MoveTo(cell.rowIndex - 1, lastCol)
                   /\ focused = [row |-> cell.rowIndex - 1, col |-> lastCol]
            /\ (~keyEvent.shiftKey /\ col < lastCol)
                => /\ keyCalls = MoveTo(cell.rowIndex, col + 1)
                   /\ focused = [row |-> cell.rowIndex, col |-> col + 1]
            /\ (keyEvent.shiftKey /\ col > 0)
                => /\ keyCalls = MoveTo(cell.rowIndex, col - 1)
                   /\ focused = [row |-> cell.rowIndex, col |-> col - 1]
            /\ (~keyEvent.shiftKey /\ col = lastCol /\ cell.rowIndex = lastRow)
                => /\ CellInGrid(kProps, after)
                   /\ focused.row \in 0..lastRow /\ focused.col \in 0..lastCol
            /\ (keyEvent.shiftKey /\ col = 0 /\ cell.rowIndex = 0)
                => /\ CellInGrid(kProps, after)
                   /\ focused.row \in 0..lastRow /\ focused.col \in 0..lastCol

\* Tab has wrapped from the end of the first row to the start of the second,
\* in a grid of more than one visible column.
C32_Witness ==
    /\ TabWhileNavigating
    /\ ~keyEvent.shiftKey
    /\ columnCount(kProps) > 1
    /\ kProps.activeCell.rowIndex = 0
    /\ keyCalls = MoveTo(1, 0)

\* The navigation keys and the keys that start an edit.
FirstKeys == {KEY_ARROW_UP, KEY_ARROW_DOWN, KEY_ARROW_LEFT, KEY_ARROW_RIGHT,
              KEY_TAB, KEY_PAGE_UP, KEY_PAGE_DOWN, KEY_HOME, KEY_END,
              KEY_ENTER, KEY_F2}

\* The calls that name a function of the given set.
CallsOf(calls, fns) == SelectSeq(calls, LAMBDA c : c.fn \in fns)

\* C33: with no active cell, a navigation or edit-triggering key sets the
\* active cell to row 0 of the first visible column, and neither moves
\* further nor starts an edit.
C33_FirstKey ==
    (/\ kProps.enabled
     /\ ~kProps.isEditing
     /\ kProps.activeCell = NoActiveCell
     /\ kProps.rowCount > 0
     /\ columnCount(kProps) > 0
     /\ keyEvent.key \in FirstKeys)
        => /\ CallsOf(keyCalls, {"setActiveCell"})
                = <<CallSetActiveCell(0, visibleColumns(kProps)[1].id)>>
           /\ CallsOf(keyCalls, {"onStartEdit"}) = <<>>

\* floor(a / b) and ceil(a / b) for a >= 0 and b > 0, by their definitions:
\* the greatest q with q * b <= a, and the least q with q * b >= a.
FloorOf(a, b) == CHOOSE q \in 0..a : q * b <= a /\ (q + 1) * b > a
CeilOf(a, b) == CHOOSE q \in 0..a : q * b >= a /\ (q = 0 \/ (q - 1) * b < a)

\* C34: for count > 0, itemHeight > 0 and containerHeight > 0,
\* startIndex = max(0, floor(scrollTop / itemHeight) - overscan),
\* endIndex = min(count - 1, floor(scrollTop / itemHeight)
\*                           + ceil(containerHeight / itemHeight) + overscan),
\* and the virtual items are the indices startIndex..endIndex in ascending
\* order, each with offsetTop = index * itemHeight and size = itemHeight.  A
\* viewport of 100, item height 25, overscan 2 and scroll offset 130 give
\* startIndex 3.
C34_WindowFormula ==
    /\ (vProps.count > 0 /\ vProps.itemHeight > 0 /\ vProps.containerHeight > 0)
        => LET raw == FloorOf(rVirt.scrollTop, vProps.itemHeight * Px)
               shown == CeilOf(vProps.containerHeight, vProps.itemHeight)
               start == Max(0, raw - vProps.overscan)
               end == Min(vProps.count - 1, raw + shown + vProps.overscan)
           IN  /\ Window.startIndex = start
               /\ Window.endIndex = end
               /\ WindowSize = Max(0, end - start + 1)
               /\ \A k \in 1..WindowSize :
                     /\ Window.virtualItems[k].index = start + k - 1
                     /\ Window.virtualItems[k].offsetTop
                            = (start + k - 1) * vProps.itemHeight
                     /\ Window.virtualItems[k].size = vProps.itemHeight
    /\ VisibleRange(20, 25, 100, 130 * Px, 2).startIndex = 3

\* A render after a scroll into the middle of a row, far enough down for the
\* window to start below row 0 and to hold more than one row.
C34_Witness ==
    /\ virtOp.op = "render"
    /\ vProps.count > 0
    /\ vProps.itemHeight > 0
    /\ vProps.containerHeight > 0
    /\ rVirt.scrollTop % (vProps.itemHeight * Px) # 0
    /\ Window.startIndex > 0
    /\ WindowSize > 1

\* The positions in the scrollable band of the columns the render returned.
WindowIndexes ==
    {rCols.visibleColumns[k].index - Len(rCols.bands.pinnedLeft) :
        k \in 1..Len(rCols.visibleColumns)}

\* The positions of the scrollable columns that overlap the interval
\* [scrollLeft, scrollLeft + containerWidth) of the scrollable band.
Overlapping ==
    LET band == rCols.bands.scrollable
    IN  {i \in 0..(Len(band) - 1) :
            /\ SumWidths(Before(band, i)) < rCols.scrollLeft + cvProps.containerWidth
            /\ SumWidths(Before(band, i + 1)) > rCols.scrollLeft}

\* The width the pinned columns leave to the scrollable band.
AvailableWidth ==
    cvProps.containerWidth - rCols.bands.pinnedLeftWidth
        - rCols.bands.pinnedRightWidth

\* C35: with virtualization enabled (and room left for the scrollable band)
\* the scrollable columns returned are a contiguous range of positions that
\* holds every scrollable column overlapping
\* [scrollLeft, scrollLeft + containerWidth), and at most one more column
\* before the first and one more after the last of them, for every
\* scrollLeft >= 0.
C35_WindowCoverage ==
    (rCols.rendered /\ cvProps.enabled /\ AvailableWidth > 0) =>
        /\ \A i \in WindowIndexes, j \in WindowIndexes :
              \A m \in i..j : m \in WindowIndexes
        /\ Overlapping \subseteq WindowIndexes
        /\ Cardinality({i \in WindowIndexes : \A o \in Overlapping : i < o}) <= 1
        /\ Cardinality({i \in WindowIndexes : \A o \in Overlapping : i > o}) <= 1

\* The width the claim gives a column: the override of the width map if there
\* is one, else the declared numeric width, else minWidth, else the default.
ResolvedWidth(column) ==
    IF column.id \in DOMAIN cvProps.columnWidths
    THEN cvProps.columnWidths[column.id]
    ELSE IF column.width # NoWidth THEN column.width
    ELSE IF column.minWidth # NoWidth THEN column.minWidth
    ELSE cvProps.defaultColumnWidth

RECURSIVE ResolvedWidths(_)
ResolvedWidths(cols) ==
    IF cols = <<>> THEN 0
    ELSE ResolvedWidth(cols[1]) + ResolvedWidths(Tail(cols))

\* The visible columns of the options with the given pinned property, in
\* input order.
BandOf(pinned) ==
    SelectSeq(cvProps.columns,
              LAMBDA c : c.visible # "false" /\ c.pinned = pinned)

\* C36: pinned-left offsets start at 0 and accumulate by width; the
\* scrollable column at position i of the scrollable columns has offsetLeft =
\* pinnedLeftWidth + the widths of the scrollable columns 0..i-1, whatever
\* scrollLeft and the window are; pinned-right offsets start at
\* containerWidth - pinnedRightWidth and accumulate rightward.  Each width is
\* the override if present, else the declared numeric width, else minWidth,
\* else the default.
C36_AbsoluteOffsets ==
    rCols.rendered =>
        LET left == BandOf("left")
            center == BandOf("false")
            right == BandOf("right")
        IN  /\ \A k \in 1..Len(rCols.allVirtualColumns) :
                  rCols.allVirtualColumns[k].width
                     = ResolvedWidth(rCols.allVirtualColumns[k].column)
            /\ Len(rCols.pinnedLeftColumns) = Len(left)
            /\ \A k \in 1..Len(left) :
                  /\ rCols.pinnedLeftColumns[k].column = left[k]
                  /\ rCols.pinnedLeftColumns[k].offsetLeft
                        = ResolvedWidths(SubSeq(left, 1, k - 1))
            /\ \A k \in 1..Len(rCols.visibleColumns) :
                  LET i == rCols.visibleColumns[k].index - Len(left)
                  IN  /\ rCols.visibleColumns[k].column = center[i + 1]
                      /\ rCols.visibleColumns[k].offsetLeft
                            = ResolvedWidths(left)
                                 + ResolvedWidths(SubSeq(center, 1, i))
            /\ Len(rCols.pinnedRightColumns) = Len(right)
            /\ \A k \in 1..Len(right) :
                  /\ rCols.pinnedRightColumns[k].column = right[k]
                  /\ rCols.pinnedRightColumns[k].offsetLeft
                        = cvProps.containerWidth - ResolvedWidths(right)
                             + ResolvedWidths(SubSeq(right, 1, k - 1))

\* A windowed render after a horizontal scroll, with a width override, of a
\* pinned-left, a scrollable and a pinned-right column.
C36_Witness ==
    /\ rCols.rendered
    /\ cvProps.enabled
    /\ rCols.scrollLeft > 0
    /\ cvProps.columnWidths # <<>>
    /\ Len(rCols.pinnedLeftColumns) = 1
    /\ Len(rCols.visibleColumns) = 1
    /\ Len(rCols.pinnedRightColumns) = 1
    /\ rCols.visibleColumns[1].offsetLeft > 0

\* C37: the value a change callback is given equals the state the dispatched
\* action leaves: selectRow, selectAll and deselectAll report selectedRowIds,
\* toggleSort reports state.sort, in every selection mode and also when the
\* hook has not re-rendered since the call before.
C37_ReportedEqualsState ==
    /\ hookOp \in {"selectRow", "selectAll", "deselectAll"}
          => lastCalls = <<SelectionChange(state.selection.selectedRowIds)>>
    /\ hookOp = "toggleSort" => lastCalls = <<SortChange(state.sort)>>

\* The step on which a suspended commitEdit resumes and dispatches EDIT_COMMIT.
CommitResumes == awaiting.active /\ hookOp' = "commitEditResumed"

\* The arguments the suspended commitEdit gave onCellChange, as a history entry.
ReportedEdit ==
    [rowId |-> awaiting.rowId, columnId |-> awaiting.columnId,
     oldValue |-> awaiting.oldValue, newValue |-> awaiting.newValue]

\* C38: for a commitEdit called on an up-to-date render, whatever is
\* dispatched while it awaits onCellChange, the history entry appended for that
\* commit carries the rowId, columnId, oldValue and newValue that onCellChange
\* was given, and the commit ends no edit session other than the one it was
\* called in.
C38_CommitConsistent ==
    [][CommitResumes /\ awaiting.fresh =>
          /\ state' # state
                => EditAt(state'.editHistory, state'.historyIndex) = ReportedEdit
          /\ awaiting.ended => state'.edit = state.edit]_vars

\* The step on which commitEdit is called on an up-to-date render while no edit
\* session is active.
CommitWithoutSession ==
    hookOp' = "commitEdit" /\ rState = state /\ ~state.edit.isEditing

\* C39: commitEdit called while no edit session is active invokes no
\* onCellChange, and its EDIT_COMMIT appends no history entry and leaves the
\* state unchanged.
C39_NoSessionNoCallback ==
    [][/\ CommitWithoutSession => lastCalls' = <<>>
       /\ CommitResumes /\ ~state.edit.isEditing => state' = state]_vars

\* C40: for a resize drag on the DataGrid component (mouse down, one or more
\* mouse moves, mouse up, each handled in an up-to-date render), the mouse up
\* leaves exactly one more history entry, a 'columnResize' at the cursor;
\* undoing it leaves every column width at its value before the mouse down,
\* and redoing it leaves the widths the drag ended with.
C40_ResizeReversible ==
    resizeDrag.fresh /\ resizeDrag.moves >= 1 =>
        /\ resizeDrag.phase = "done" =>
              /\ Len(dataGrid.history) = resizeDrag.entries + 1
              /\ dataGrid.historyIndex = Len(dataGrid.history) - 1
              /\ dataGrid.history[Len(dataGrid.history)].type = "columnResize"
        /\ resizeDrag.phase = "undone"
              => Widths(dataGrid.columns) = resizeDrag.before
        /\ resizeDrag.phase = "redone"
              => Widths(dataGrid.columns) = resizeDrag.after

====
